---- MODULE Spec2Model ----
(***************************************************************************)
(* A model of the maze game of src/src/scenes/maze.ts (the second, full    *)
(* MazeScene of that file, lines 528-1550) and of the frame loop that      *)
(* drives it (src/unnamed/part_001).                                       *)
(*                                                                         *)
(* Numbers.  The scene computes positions in floating point.  The model    *)
(* keeps every position as a whole number of pixels: a velocity component  *)
(* (d / distance) * speed is truncated toward zero, exactly (the           *)
(* comparison with the square root is done on squares).  Every comparison  *)
(* of a distance with a constant (chase range, reached-target radius,      *)
(* line-of-sight step count) is exact for whole-pixel positions.           *)
(*                                                                         *)
(* Randomness.  Every Math.random() result is an input: the handlers take  *)
(* the values that the draws produced (a cell, a length, a side) and the   *)
(* sets they are drawn from are small sets of values the code can draw.    *)
(***************************************************************************)
EXTENDS Integers, Sequences, FiniteSets, TLC

(***************************************************************************)
(* Program constants (maze.ts 528-568, part_001 3-4).                      *)
(***************************************************************************)
TILE_SIZE == 120
MAP_WIDTH == 1320
MAP_HEIGHT == 720
VIEWPORT_WIDTH == 426
VIEWPORT_HEIGHT == 720
GRID_COLS == 11
GRID_ROWS == 6
MIN_WALL_LENGTH == 2
MAX_WALL_LENGTH == 5
NUM_DETACHED_WALLS == 6
MAX_PLACEMENT_ATTEMPTS == 200
PLAYER_FRAME_SIZE == 120
PLAYER_SPEED == 8
NPC_SIZE == 120
HITBOX_SIZE == 80
HITBOX_OFFSET == (TILE_SIZE - HITBOX_SIZE) \div 2
CHICK_SPEED_WANDER == 2
CHICK_SPEED_FLEE == 5
DOG_SPEED_WANDER == 3
DOG_SPEED_CHASE == 5
DOG_CHASE_RANGE == 300
TARGET_FPS == 30
\* the tile variants of the bush sheet (maze.ts 537-543)
BUSH_VERT_MIDDLE == 0
BUSH_VERT_CAP_TOP == 1
BUSH_HORIZ_MIDDLE == 2
BUSH_HORIZ_CAP_LEFT == 3
BUSH_JOINER == 4
BUSH_HORIZ_CAP_RIGHT == 5
BUSH_VERT_CAP_BOTTOM == 6
FRAME_TIME == 1000 \div TARGET_FPS
\* the attempt budgets of initPlayer/spawnNPC and of pickRandomWanderTarget
SPAWN_ATTEMPTS == 50
WANDER_ATTEMPTS == 20
\* the distance below which a wander target counts as reached, the dead zone
\* of the pointer, the edge padding of moveNpcAway, the stuck thresholds
WANDER_REACHED == 20
POINTER_DEAD_ZONE == 10
FLEE_PAD == 20
STUCK_REPICK == 15
STUCK_JITTER == 5
LOS_STEP == 20
COOLDOWN_BASE == 1000

(***************************************************************************)
(* Bounds of the model.                                                    *)
(***************************************************************************)
\* simulated ticks (updates that run the game logic) in one behaviour
MaxTicks == 17
\* highest level a behaviour reaches
MaxLevel == 2
\* highest level at which updateNPCs is called on its own
MaxCallLevel == 3

(***************************************************************************)
(* Arithmetic helpers.                                                     *)
(***************************************************************************)
Abs(n) == IF n < 0 THEN -n ELSE n

Sign(n) == IF n < 0 THEN -1 ELSE IF n > 0 THEN 1 ELSE 0

Min(a, b) == IF a < b THEN a ELSE b

Max(a, b) == IF a > b THEN a ELSE b

RECURSIVE ISqrtIn(_, _, _)
\* the largest r in lo..hi with r*r <= n (bisection)
ISqrtIn(n, lo, hi) ==
  IF lo >= hi THEN lo
  ELSE LET mid == (lo + hi + 1) \div 2
       IN IF mid * mid <= n THEN ISqrtIn(n, mid, hi) ELSE ISqrtIn(n, lo, mid - 1)

\* floor(Math.sqrt(n)) for 0 <= n <= 1500^2
ISqrt(n) == ISqrtIn(n, 0, 1500)

\* Math.sqrt(d2) <= p / q, for naturals p, d2 and q > 0 and r = ISqrt(d2),
\* without forming p * p
SqrtLeq(d2, r, p, q) ==
  LET a == p \div q
      rem == p % q
  IN IF r < a THEN TRUE
     ELSE IF r > a THEN FALSE
     ELSE (d2 - a * a) * q * q <= 2 * a * rem * q + rem * rem

RECURSIVE Pow(_, _)
Pow(b, e) == IF e <= 0 THEN 1 ELSE b * Pow(b, e - 1)

\* getSpeedMultiplier: Math.pow(1.1, level - 1), kept as the fraction
\* 11^(level-1) / 10^(level-1)
\* the multiplier with 1.2 for 1.1
SpeedMultNumSteeper(lv) == Pow(12, lv - 1)

SpeedMultNum(lv) == Pow(11, lv - 1)

SpeedMultDen(lv) == Pow(10, lv - 1)

RECURSIVE LargestStep(_, _, _, _, _)
\* the largest v in 0..hi with v * den * sqrt(d2) <= k, where r = ISqrt(d2)
LargestStep(k, den, d2, r, hi) ==
  IF hi <= 0 THEN 0
  ELSE IF SqrtLeq(d2, r, k, hi * den) THEN hi
  ELSE LargestStep(k, den, d2, r, hi - 1)

\* (d / Math.sqrt(d2)) * (base * num / den), truncated toward zero
Component(d, d2, base, num, den) ==
  IF d = 0 \/ d2 = 0 THEN 0
  ELSE Sign(d) * LargestStep(Abs(d) * base * num, den, d2, ISqrt(d2),
                             (base * num) \div den)

(***************************************************************************)
(* Grid model and maze generator.                                          *)
(***************************************************************************)
Rows == 0 .. (GRID_ROWS - 1)

Cols == 0 .. (GRID_COLS - 1)

\* a function written out as an explicit table of its values
Table(f) == f @@ << >>

\* generateMaze 918-921: every cell grass
EmptyGrid == Table([r \in Rows |-> Table([c \in Cols |-> FALSE])])

\* this.wallMatrix[row]?.[col], undefined read as false
WallAt(m, row, col) ==
  /\ row \in DOMAIN m
  /\ col \in DOMAIN m[row]
  /\ m[row][col]

\* isWall taking out-of-range coordinates round the grid
isWallWrapped(m, row, col) == m[row % GRID_ROWS][col % GRID_COLS]

isWall(m, row, col) ==
  IF row < 0 \/ row >= GRID_ROWS \/ col < 0 \/ col >= GRID_COLS
  THEN FALSE
  ELSE m[row][col]

\* getTileIndex with the two vertical caps exchanged
getTileIndexCapsSwapped(m, row, col) ==
  LET up == isWall(m, row - 1, col)
      down == isWall(m, row + 1, col)
      left == isWall(m, row, col - 1)
      right == isWall(m, row, col + 1)
      hasVertical == up \/ down
      hasHorizontal == left \/ right
  IN IF hasVertical /\ hasHorizontal THEN BUSH_JOINER
     ELSE IF hasVertical
          THEN IF up /\ down THEN BUSH_VERT_MIDDLE
               ELSE IF down THEN BUSH_VERT_CAP_BOTTOM
               ELSE BUSH_VERT_CAP_TOP
     ELSE IF hasHorizontal
          THEN IF left /\ right THEN BUSH_HORIZ_MIDDLE
               ELSE IF right THEN BUSH_HORIZ_CAP_LEFT
               ELSE BUSH_HORIZ_CAP_RIGHT
     ELSE BUSH_JOINER

getTileIndex(m, row, col) ==
  LET up == isWall(m, row - 1, col)
      down == isWall(m, row + 1, col)
      left == isWall(m, row, col - 1)
      right == isWall(m, row, col + 1)
      hasVertical == up \/ down
      hasHorizontal == left \/ right
  IN IF hasVertical /\ hasHorizontal THEN BUSH_JOINER
     ELSE IF hasVertical
          THEN IF up /\ down THEN BUSH_VERT_MIDDLE
               ELSE IF down THEN BUSH_VERT_CAP_TOP
               ELSE BUSH_VERT_CAP_BOTTOM
     ELSE IF hasHorizontal
          THEN IF left /\ right THEN BUSH_HORIZ_MIDDLE
               ELSE IF right THEN BUSH_HORIZ_CAP_LEFT
               ELSE BUSH_HORIZ_CAP_RIGHT
     ELSE BUSH_JOINER

\* the grid with every cell of the set cells blocked
SetWalls(m, cells) ==
  Table([r \in DOMAIN m |-> Table([c \in DOMAIN m[r] |->
      IF <<r, c>> \in cells THEN TRUE ELSE m[r][c]])])

\* placeIntersectingPair with the vertical run one column to the right
placeIntersectingPairShifted(m) ==
  LET hLength == 3
      hRow == 2
      hStartCol == 2
      intersectCol == hStartCol + 2
      horiz == {<<hRow, c>> : c \in hStartCol .. (hStartCol + hLength - 1)}
      vert == {<<r, intersectCol>> : r \in 1 .. 3}
  IN SetWalls(SetWalls(m, horiz), vert)

\* placeIntersectingPair with a vertical run of 5 cells, rows 0 to 4
placeIntersectingPairTall(m) ==
  LET hLength == 3
      hRow == 2
      hStartCol == 2
      intersectCol == hStartCol + 1
      horiz == {<<hRow, c>> : c \in hStartCol .. (hStartCol + hLength - 1)}
      vert == {<<r, intersectCol>> : r \in 0 .. 4}
  IN SetWalls(SetWalls(m, horiz), vert)

placeIntersectingPair(m) ==
  LET hLength == 3
      hRow == 2
      hStartCol == 2
      intersectCol == hStartCol + 1
      horiz == {<<hRow, c>> : c \in hStartCol .. (hStartCol + hLength - 1)}
      vert == {<<r, intersectCol>> : r \in 1 .. 3}
  IN SetWalls(SetWalls(m, horiz), vert)

\* touchesAnyWall testing the cell itself only
touchesAnyWallCellOnly(m, row, col) == m[row][col]

\* touchesAnyWall without the test of the cell to the right
touchesAnyWallNoRight(m, row, col) ==
  \/ m[row][col]
  \/ row > 0 /\ m[row - 1][col]
  \/ row < GRID_ROWS - 1 /\ m[row + 1][col]
  \/ col > 0 /\ m[row][col - 1]

touchesAnyWall(m, row, col) ==
  \/ m[row][col]
  \/ row > 0 /\ m[row - 1][col]
  \/ row < GRID_ROWS - 1 /\ m[row + 1][col]
  \/ col > 0 /\ m[row][col - 1]
  \/ col < GRID_COLS - 1 /\ m[row][col + 1]

\* A draw of placeDetachedWall: the results of its four Math.random() calls,
\* [h |-> isHorizontal, len |-> length, row |-> startRow, col |-> startCol].
\* (A draw whose length leaves no start returns before drawing one: its row
\* and col are 1 and are not used.)
DetachedDraws ==
  {d \in [h : BOOLEAN, len : MIN_WALL_LENGTH .. MAX_WALL_LENGTH,
          row : 1 .. (GRID_ROWS - 2), col : 1 .. (GRID_COLS - 2)] :
     LET maxStart == IF d.h THEN GRID_COLS - 1 - d.len ELSE GRID_ROWS - 1 - d.len
     IN IF maxStart < 1 THEN d.row = 1 /\ d.col = 1
        ELSE IF d.h THEN d.col <= maxStart ELSE d.row <= maxStart}

\* the cells of a segment one cell longer than drawn
SegmentCellsOneMore(d) ==
  IF d.h THEN {<<d.row, c>> : c \in d.col .. (d.col + d.len)}
         ELSE {<<r, d.col>> : r \in d.row .. (d.row + d.len)}

\* the cells of the candidate segment of a draw
SegmentCells(d) ==
  IF d.h THEN {<<d.row, c>> : c \in d.col .. (d.col + d.len - 1)}
         ELSE {<<r, d.col>> : r \in d.row .. (d.row + d.len - 1)}

\* placeDetachedWall blocking the cells of the segment one by one, up to the
\* first one that touches a wall
placeDetachedWallPiecewise(m, d) ==
  LET maxStart == IF d.h THEN GRID_COLS - 1 - d.len ELSE GRID_ROWS - 1 - d.len
      positions == SegmentCells(d)
      clear == {pos \in positions :
                  \A q \in positions :
                    q[1] <= pos[1] /\ q[2] <= pos[2] => ~touchesAnyWall(m, q[1], q[2])}
  IN IF maxStart < 1 THEN <<m, FALSE>>
     ELSE <<SetWalls(m, clear), clear = positions>>

\* placeDetachedWall: <<grid after the attempt, returned flag>>
placeDetachedWall(m, d) ==
  LET maxStart == IF d.h THEN GRID_COLS - 1 - d.len ELSE GRID_ROWS - 1 - d.len
      positions == SegmentCells(d)
  IN IF maxStart < 1 THEN <<m, FALSE>>
     ELSE IF \E pos \in positions : touchesAnyWall(m, pos[1], pos[2])
          THEN <<m, FALSE>>
          ELSE <<SetWalls(m, positions), TRUE>>

\* The draw of attempt number i (from 1) of a generateMaze call whose first
\* draws are the sequence draws: once they are used up, every later attempt
\* repeats the last one (or a segment on the intersecting pair), which fails.
DrawOf(draws, i) ==
  IF i <= Len(draws) THEN draws[i]
  ELSE IF Len(draws) > 0 THEN draws[Len(draws)]
  ELSE [h |-> TRUE, len |-> 3, row |-> 2, col |-> 2]

RECURSIVE PlaceLoop(_, _, _, _)
\* generateMaze 930-935: the while loop, from placedCount (placed) and attempts
\* (att).  Once the given draws are used up every attempt repeats one draw on
\* one grid: as soon as it fails, it fails until the attempts run out and the
\* grid stays.
PlaceLoop(m, draws, placed, att) ==
  IF placed < NUM_DETACHED_WALLS /\ att < MAX_PLACEMENT_ATTEMPTS
  THEN LET res == placeDetachedWall(m, DrawOf(draws, att + 1))
       IN IF att >= Len(draws) /\ ~res[2]
          THEN m
          ELSE PlaceLoop(res[1], draws,
                         IF res[2] THEN placed + 1 ELSE placed,
                         att + 1)
  ELSE m

generateMaze(draws) == PlaceLoop(placeIntersectingPair(EmptyGrid), draws, 0, 0)

(***************************************************************************)
(* Collision engine.                                                       *)
(***************************************************************************)
\* hitboxesOverlap with <= and >= for < and >
hitboxesOverlapClosed(x1, y1, x2, y2) ==
  LET hx1 == x1 + HITBOX_OFFSET
      hy1 == y1 + HITBOX_OFFSET
      hx2 == x2 + HITBOX_OFFSET
      hy2 == y2 + HITBOX_OFFSET
  IN /\ hx1 <= hx2 + HITBOX_SIZE
     /\ hx1 + HITBOX_SIZE >= hx2
     /\ hy1 <= hy2 + HITBOX_SIZE
     /\ hy1 + HITBOX_SIZE >= hy2

hitboxesOverlap(x1, y1, x2, y2) ==
  LET hx1 == x1 + HITBOX_OFFSET
      hy1 == y1 + HITBOX_OFFSET
      hx2 == x2 + HITBOX_OFFSET
      hy2 == y2 + HITBOX_OFFSET
  IN /\ hx1 < hx2 + HITBOX_SIZE
     /\ hx1 + HITBOX_SIZE > hx2
     /\ hy1 < hy2 + HITBOX_SIZE
     /\ hy1 + HITBOX_SIZE > hy2

\* the bush loop shared by collidesWithWall (1289-1312) and
\* npcCollidesWithWall (1497-1520): a hitbox at sprite position (x, y)
\* against the hitboxes of the blocked cells it can reach
HitsBush(m, x, y) ==
  LET hx == x + HITBOX_OFFSET
      hy == y + HITBOX_OFFSET
      startCol == hx \div TILE_SIZE
      endCol == (hx + HITBOX_SIZE - 1) \div TILE_SIZE
      startRow == hy \div TILE_SIZE
      endRow == (hy + HITBOX_SIZE - 1) \div TILE_SIZE
  IN \E row \in startRow .. endRow : \E col \in startCol .. endCol :
       /\ WallAt(m, row, col)
       /\ LET bhx == col * TILE_SIZE + HITBOX_OFFSET
              bhy == row * TILE_SIZE + HITBOX_OFFSET
          IN /\ hx < bhx + HITBOX_SIZE
             /\ hx + HITBOX_SIZE > bhx
             /\ hy < bhy + HITBOX_SIZE
             /\ hy + HITBOX_SIZE > bhy

\* collidesWithWall without the test of the NPC's type
collidesWithAnyNpc(m, ns, x, y) ==
  \/ HitsBush(m, x, y)
  \/ \E i \in 1 .. Len(ns) :
       /\ ~ns[i].dead
       /\ hitboxesOverlap(x, y, ns[i].x, ns[i].y)

\* the player's collision test: bushes, then live NPCs that are not chicks
collidesWithWall(m, ns, x, y) ==
  \/ HitsBush(m, x, y)
  \/ \E i \in 1 .. Len(ns) :
       /\ ~ns[i].dead
       /\ ns[i].type # "chick"
       /\ hitboxesOverlap(x, y, ns[i].x, ns[i].y)

npcCollidesWithWall(m, x, y) == HitsBush(m, x, y)

\* hasLineOfSight looking at its two end points only
hasLineOfSightEnds(m, x1, y1, x2, y2) ==
  LET cx1 == x1 + TILE_SIZE \div 2
      cy1 == y1 + TILE_SIZE \div 2
      cx2 == x2 + TILE_SIZE \div 2
      cy2 == y2 + TILE_SIZE \div 2
  IN /\ ~WallAt(m, cy1 \div TILE_SIZE, cx1 \div TILE_SIZE)
     /\ ~WallAt(m, cy2 \div TILE_SIZE, cx2 \div TILE_SIZE)

\* hasLineOfSight: the samples are cx1 + dx * i / steps for i in 0..steps
hasLineOfSight(m, x1, y1, x2, y2) ==
  LET cx1 == x1 + TILE_SIZE \div 2
      cy1 == y1 + TILE_SIZE \div 2
      cx2 == x2 + TILE_SIZE \div 2
      cy2 == y2 + TILE_SIZE \div 2
      dx == cx2 - cx1
      dy == cy2 - cy1
      steps == Max(1, ISqrt((dx * dx + dy * dy) \div (LOS_STEP * LOS_STEP)))
  IN \A i \in 0 .. steps :
       LET col == (cx1 * steps + dx * i) \div (steps * TILE_SIZE)
           row == (cy1 * steps + dy * i) \div (steps * TILE_SIZE)
       IN ~WallAt(m, row, col)

(***************************************************************************)
(* Level setup: player and NPC placement.                                  *)
(***************************************************************************)
\* A cell draw is <<tileCol, tileRow>>, the pair of values an attempt of
\* initPlayer, spawnNPC or pickRandomWanderTarget draws.
sideWidth == GRID_COLS \div 3

\* the columns initPlayer draws from (801-807)
PlayerMinCol(onLeft) == IF onLeft THEN 0 ELSE GRID_COLS - sideWidth - 1

PlayerMaxCol(onLeft) == IF onLeft THEN sideWidth ELSE GRID_COLS - 1

\* the columns initNPCs gives the dog (832-840): the opposite side
DogMinCol(onLeft) == IF onLeft THEN GRID_COLS - sideWidth - 1 ELSE 0

DogMaxCol(onLeft) == IF onLeft THEN GRID_COLS - 1 ELSE sideWidth

\* the least member of a non-empty set of numbers
Least(S) == CHOOSE a \in S : \A b \in S : a <= b

\* initPlayer 809-824: the attempt loop (the first attempt that does not
\* continue places the player), then the fallback
PlayerAttempt(m, draws) ==
  LET placed == {a \in 0 .. (SPAWN_ATTEMPTS - 1) :
                   ~WallAt(m, draws[a + 1][2], draws[a + 1][1])}
  IN IF placed # {}
     THEN LET a == Least(placed)
          IN <<draws[a + 1][1] * TILE_SIZE, draws[a + 1][2] * TILE_SIZE>>
     ELSE <<0, 0>>

initPlayer(m, draws) ==
  LET at == PlayerAttempt(m, draws)
  IN [x |-> at[1], y |-> at[2],
      width |-> PLAYER_FRAME_SIZE, height |-> PLAYER_FRAME_SIZE]

NewNpc(type, x, y) ==
  [x |-> x, y |-> y, type |-> type, dead |-> FALSE,
   wanderTarget |-> [x |-> x, y |-> y], nextWanderTime |-> 0,
   stuckTime |-> 0, prevX |-> x, prevY |-> y]

\* spawnNPC without the test against the NPCs placed before
spawnNPCOnNpcs(m, p, ns, type, draws) ==
  LET placed ==
        {a \in 0 .. (SPAWN_ATTEMPTS - 1) :
           LET tileCol == draws[a + 1][1]
               tileRow == draws[a + 1][2]
               x == tileCol * TILE_SIZE
               y == tileRow * TILE_SIZE
           IN /\ ~(tileRow < 0 \/ tileRow >= GRID_ROWS \/ tileCol < 0 \/ tileCol >= GRID_COLS)
              /\ ~m[tileRow][tileCol]
              /\ ~hitboxesOverlap(x, y, p.x, p.y)}
  IN IF placed # {}
     THEN LET a == Least(placed)
          IN Append(ns, NewNpc(type, draws[a + 1][1] * TILE_SIZE,
                               draws[a + 1][2] * TILE_SIZE))
     ELSE ns

\* spawnNPC 855-897: the attempt loop (the first attempt that reaches the push
\* ends it); the NPC list after the call
spawnNPC(m, p, ns, type, draws) ==
  LET placed ==
        {a \in 0 .. (SPAWN_ATTEMPTS - 1) :
           LET tileCol == draws[a + 1][1]
               tileRow == draws[a + 1][2]
               x == tileCol * TILE_SIZE
               y == tileRow * TILE_SIZE
           IN /\ ~(tileRow < 0 \/ tileRow >= GRID_ROWS \/ tileCol < 0 \/ tileCol >= GRID_COLS)
              /\ ~m[tileRow][tileCol]
              /\ ~hitboxesOverlap(x, y, p.x, p.y)
              /\ ~\E i \in 1 .. Len(ns) : hitboxesOverlap(x, y, ns[i].x, ns[i].y)}
  IN IF placed # {}
     THEN LET a == Least(placed)
          IN Append(ns, NewNpc(type, draws[a + 1][1] * TILE_SIZE,
                               draws[a + 1][2] * TILE_SIZE))
     ELSE ns

RECURSIVE SpawnChicks(_, _, _, _, _)
\* initNPCs 846-849: the chick loop, chick i (from 0) drawing chickDraws[i+1]
SpawnChicks(m, p, ns, chickDraws, i) ==
  IF i < Len(chickDraws)
  THEN SpawnChicks(m, p, spawnNPC(m, p, ns, "chick", chickDraws[i + 1]),
                   chickDraws, i + 1)
  ELSE ns

\* initNPCs (this.npcs is empty when it runs): the dog, then chickCount =
\* Len(chickDraws) chicks
initNPCs(m, p, dogDraws, chickDraws) ==
  SpawnChicks(m, p, spawnNPC(m, p, << >>, "dog", dogDraws), chickDraws, 0)

(***************************************************************************)
(* NPC behaviour engine.                                                   *)
(***************************************************************************)
\* n / d truncated toward zero, d > 0
TruncDiv(n, d) == Sign(n) * (Abs(n) \div d)

\* The random input of one NPC update:
\*   wander   the cells pickRandomWanderTarget draws, one per attempt
\*   cooldown Math.floor(Math.random() * 1000) of wanderNpc
\*   jx, jy   the two Math.random() of moveNpcAway's jitter, in tenths
\* pickRandomWanderTarget taking the first drawn cell of the grid, grass or not
pickRandomWanderTargetAnyCell(m, npc, draws) ==
  LET open == {a \in 0 .. (WANDER_ATTEMPTS - 1) :
                 LET tileCol == draws[a + 1][1]
                     tileRow == draws[a + 1][2]
                 IN /\ tileRow >= 0 /\ tileRow < GRID_ROWS
                    /\ tileCol >= 0 /\ tileCol < GRID_COLS}
  IN IF open = {} THEN npc
     ELSE LET a == Least(open)
          IN [npc EXCEPT !.wanderTarget =
                [x |-> draws[a + 1][1] * TILE_SIZE, y |-> draws[a + 1][2] * TILE_SIZE]]

\* pickRandomWanderTarget 1422-1436: the first drawn cell that is grass
pickRandomWanderTarget(m, npc, draws) ==
  LET open == {a \in 0 .. (WANDER_ATTEMPTS - 1) :
                 LET tileCol == draws[a + 1][1]
                     tileRow == draws[a + 1][2]
                 IN /\ tileRow >= 0 /\ tileRow < GRID_ROWS
                    /\ tileCol >= 0 /\ tileCol < GRID_COLS
                    /\ ~m[tileRow][tileCol]}
  IN IF open = {} THEN npc
     ELSE LET a == Least(open)
          IN [npc EXCEPT !.wanderTarget =
                [x |-> draws[a + 1][1] * TILE_SIZE, y |-> draws[a + 1][2] * TILE_SIZE]]

\* the two per-axis tests, with Y tested at the old X
ResolveNpcMoveYAtOldX(m, npc, newX, newY) ==
  LET x1 == IF ~npcCollidesWithWall(m, newX, npc.y) THEN newX ELSE npc.x
      y1 == IF ~npcCollidesWithWall(m, npc.x, newY) THEN newY ELSE npc.y
  IN [npc EXCEPT !.x = x1, !.y = y1]

\* the two per-axis tests of moveNpcToward / moveNpcAway (X at the old Y, then
\* Y at the resolved X)
ResolveNpcMove(m, npc, newX, newY) ==
  LET x1 == IF ~npcCollidesWithWall(m, newX, npc.y) THEN newX ELSE npc.x
      y1 == IF ~npcCollidesWithWall(m, x1, newY) THEN newY ELSE npc.y
  IN [npc EXCEPT !.x = x1, !.y = y1]

\* speed is base * SpeedMult(lv)
moveNpcToward(m, npc, targetX, targetY, base, lv) ==
  LET dx == targetX - npc.x
      dy == targetY - npc.y
      d2 == dx * dx + dy * dy
  IN IF d2 < 1 THEN npc
     ELSE LET vx == Component(dx, d2, base, SpeedMultNum(lv), SpeedMultDen(lv))
              vy == Component(dy, d2, base, SpeedMultNum(lv), SpeedMultDen(lv))
          IN ResolveNpcMove(m, npc, npc.x + vx, npc.y + vy)

\* (Math.random() - 0.5) * jitterStrength * 2 with jitterStrength = speed * 0.8
\* and Math.random() = tenths / 10, truncated toward zero
Jitter(tenths, base, lv) ==
  TruncDiv((2 * tenths - 10) * 8 * base * SpeedMultNum(lv), 100 * SpeedMultDen(lv))

moveNpcAway(m, npc, targetX, targetY, base, lv, rnd) ==
  LET dx == npc.x - targetX
      dy == npc.y - targetY
      d2 == dx * dx + dy * dy
  IN IF d2 < 1 THEN npc
     ELSE LET vx0 == Component(dx, d2, base, SpeedMultNum(lv), SpeedMultDen(lv))
              vy0 == Component(dy, d2, base, SpeedMultNum(lv), SpeedMultDen(lv))
              pad == FLEE_PAD
              \* the sign of vx is the sign of dx, also when vx truncates to 0
              edgeL == npc.x <= pad /\ dx < 0
              edgeR == npc.x >= MAP_WIDTH - NPC_SIZE - pad /\ dx > 0
              edgeT == npc.y <= pad /\ dy < 0
              edgeB == npc.y >= MAP_HEIGHT - NPC_SIZE - pad /\ dy > 0
              atEdge == edgeL \/ edgeR \/ edgeT \/ edgeB
              vx1 == IF edgeL \/ edgeR THEN 0 ELSE vx0
              vy1 == IF edgeT \/ edgeB THEN 0 ELSE vy0
              jit == atEdge \/ npc.stuckTime > STUCK_JITTER
              vx == IF jit THEN vx1 + Jitter(rnd.jx, base, lv) ELSE vx1
              vy == IF jit THEN vy1 + Jitter(rnd.jy, base, lv) ELSE vy1
          IN ResolveNpcMove(m, npc, npc.x + vx, npc.y + vy)

\* wanderNpc re-picking from a stuck counter of 15 on
wanderNpcStuckAt15(m, npc, currentTime, base, lv, rnd) ==
  LET dx == npc.wanderTarget.x - npc.x
      dy == npc.wanderTarget.y - npc.y
      reachedTarget == dx * dx + dy * dy < WANDER_REACHED * WANDER_REACHED
      repick == \/ reachedTarget
                \/ currentTime > npc.nextWanderTime
                \/ npc.stuckTime >= STUCK_REPICK
      n1 == IF repick
            THEN [pickRandomWanderTarget(m, npc, rnd.wander) EXCEPT
                    !.nextWanderTime = currentTime + COOLDOWN_BASE + rnd.cooldown,
                    !.stuckTime = 0]
            ELSE npc
  IN moveNpcToward(m, n1, n1.wanderTarget.x, n1.wanderTarget.y, base, lv)

wanderNpc(m, npc, currentTime, base, lv, rnd) ==
  LET dx == npc.wanderTarget.x - npc.x
      dy == npc.wanderTarget.y - npc.y
      reachedTarget == dx * dx + dy * dy < WANDER_REACHED * WANDER_REACHED
      repick == \/ reachedTarget
                \/ currentTime > npc.nextWanderTime
                \/ npc.stuckTime > STUCK_REPICK
      n1 == IF repick
            THEN [pickRandomWanderTarget(m, npc, rnd.wander) EXCEPT
                    !.nextWanderTime = currentTime + COOLDOWN_BASE + rnd.cooldown,
                    !.stuckTime = 0]
            ELSE npc
  IN moveNpcToward(m, n1, n1.wanderTarget.x, n1.wanderTarget.y, base, lv)

\* the loop body without `if (npc.dead) continue`
updateNPCDeadToo(m, npc, p, currentTime, lv, rnd) ==
  LET hasLOS == hasLineOfSight(m, npc.x, npc.y, p.x, p.y)
      dx == p.x - npc.x
      dy == p.y - npc.y
      inRange == dx * dx + dy * dy < DOG_CHASE_RANGE * DOG_CHASE_RANGE
      moved ==
        IF npc.type = "chick"
        THEN IF hasLOS
             THEN moveNpcAway(m, npc, p.x, p.y, CHICK_SPEED_FLEE, lv, rnd)
             ELSE wanderNpc(m, npc, currentTime, CHICK_SPEED_WANDER, lv, rnd)
        ELSE IF hasLOS /\ inRange
             THEN moveNpcToward(m, npc, p.x, p.y, DOG_SPEED_CHASE, lv)
             ELSE wanderNpc(m, npc, currentTime, DOG_SPEED_WANDER, lv, rnd)
      cx == Max(0, Min(moved.x, MAP_WIDTH - NPC_SIZE))
      cy == Max(0, Min(moved.y, MAP_HEIGHT - NPC_SIZE))
      movedDist == Abs(cx - npc.prevX) + Abs(cy - npc.prevY)
  IN [moved EXCEPT !.x = cx, !.y = cy,
                   !.stuckTime = IF movedDist < 1 THEN moved.stuckTime + 1 ELSE 0,
                   !.prevX = cx, !.prevY = cy]

\* the loop body with a dog that chases whenever it sees the player
updateNPCSightOnly(m, npc, p, currentTime, lv, rnd) ==
  IF npc.dead THEN npc
  ELSE
    LET hasLOS == hasLineOfSight(m, npc.x, npc.y, p.x, p.y)
        moved ==
          IF npc.type = "chick"
          THEN IF hasLOS
               THEN moveNpcAway(m, npc, p.x, p.y, CHICK_SPEED_FLEE, lv, rnd)
               ELSE wanderNpc(m, npc, currentTime, CHICK_SPEED_WANDER, lv, rnd)
          ELSE IF hasLOS
               THEN moveNpcToward(m, npc, p.x, p.y, DOG_SPEED_CHASE, lv)
               ELSE wanderNpc(m, npc, currentTime, DOG_SPEED_WANDER, lv, rnd)
        cx == Max(0, Min(moved.x, MAP_WIDTH - NPC_SIZE))
        cy == Max(0, Min(moved.y, MAP_HEIGHT - NPC_SIZE))
        movedDist == Abs(cx - npc.prevX) + Abs(cy - npc.prevY)
    IN [moved EXCEPT !.x = cx, !.y = cy,
                     !.stuckTime = IF movedDist < 1 THEN moved.stuckTime + 1 ELSE 0,
                     !.prevX = cx, !.prevY = cy]

\* updateNPCs 1364-1401: the loop body for one NPC
updateNPC(m, npc, p, currentTime, lv, rnd) ==
  IF npc.dead THEN npc
  ELSE
    LET hasLOS == hasLineOfSight(m, npc.x, npc.y, p.x, p.y)
        dx == p.x - npc.x
        dy == p.y - npc.y
        inRange == dx * dx + dy * dy < DOG_CHASE_RANGE * DOG_CHASE_RANGE
        moved ==
          IF npc.type = "chick"
          THEN IF hasLOS
               THEN moveNpcAway(m, npc, p.x, p.y, CHICK_SPEED_FLEE, lv, rnd)
               ELSE wanderNpc(m, npc, currentTime, CHICK_SPEED_WANDER, lv, rnd)
          ELSE IF hasLOS /\ inRange
               THEN moveNpcToward(m, npc, p.x, p.y, DOG_SPEED_CHASE, lv)
               ELSE wanderNpc(m, npc, currentTime, DOG_SPEED_WANDER, lv, rnd)
        cx == Max(0, Min(moved.x, MAP_WIDTH - NPC_SIZE))
        cy == Max(0, Min(moved.y, MAP_HEIGHT - NPC_SIZE))
        movedDist == Abs(cx - npc.prevX) + Abs(cy - npc.prevY)
    IN [moved EXCEPT !.x = cx, !.y = cy,
                     !.stuckTime = IF movedDist < 1 THEN moved.stuckTime + 1 ELSE 0,
                     !.prevX = cx, !.prevY = cy]

RECURSIVE UpdateFrom(_, _, _, _, _, _, _)
\* the for loop of updateNPCs from NPC i on
UpdateFrom(m, ns, p, currentTime, lv, rnd, i) ==
  IF i > Len(ns) THEN ns
  ELSE UpdateFrom(m,
                  [ns EXCEPT ![i] = updateNPC(m, ns[i], p, currentTime, lv, rnd[ns[i].type])],
                  p, currentTime, lv, rnd, i + 1)

\* updateNPCs: rnd[type] is the random input of the NPCs of that type
updateNPCs(m, ns, p, currentTime, lv, rnd) == UpdateFrom(m, ns, p, currentTime, lv, rnd, 1)

(***************************************************************************)
(* The numbers of the frame loop.  Game.lastTime, Game.accumulator and     *)
(* FRAME_TIME are IEEE doubles.  A double d with 0 <= d < 1024 that is a   *)
(* multiple of 2^-47 is kept exactly, as the pair <<hi, lo>> with          *)
(* d * 2^47 = hi * LIMB + lo and 0 <= lo < LIMB.  Every double from 32 up  *)
(* is such a multiple, and sums and differences of such multiples are too. *)
(***************************************************************************)
LIMB == Pow(2, 29)

DoubleZero == <<0, 0>>

\* a + b and a - b (for a >= b) as real numbers
ExactAdd(a, b) ==
  <<a[1] + b[1] + (a[2] + b[2]) \div LIMB, (a[2] + b[2]) % LIMB>>

ExactSub(a, b) ==
  <<a[1] - b[1] - (IF a[2] < b[2] THEN 1 ELSE 0), (a[2] - b[2]) % LIMB>>

\* a >= b
DoubleGeq(a, b) == a[1] > b[1] \/ (a[1] = b[1] /\ a[2] >= b[2])

RECURSIVE Grain(_, _)
\* the spacing of the doubles around a number with high limb hi, in units of
\* 2^-47: 1 below 64 (53 bits hold the number), 2 from 64, 4 from 128, ...
Grain(hi, g) == IF hi < Pow(2, 24) * g THEN g ELSE Grain(hi, 2 * g)

\* the double nearest to the real number a, ties to the even double: the
\* rounding of every arithmetic operation on doubles
RoundDouble(a) ==
  LET g == Grain(a[1], 1)
      r == a[2] % g
      down == a[2] - r
      lo == IF 2 * r < g \/ (2 * r = g /\ (down \div g) % 2 = 0)
            THEN down ELSE down + g
  IN IF lo = LIMB THEN <<a[1] + 1, 0>> ELSE <<a[1], lo>>

\* a + b and a - b as JavaScript computes them
DoubleAdd(a, b) == RoundDouble(ExactAdd(a, b))

DoubleSub(a, b) == RoundDouble(ExactSub(a, b))

\* part_001 4: FRAME_TIME = 1000 / TARGET_FPS, the double nearest to 100/3,
\* 33.333333333333336 = 4691249611844267 * 2^-47
FRAME_TIME_DOUBLE == <<8738133, 178956971>>

(***************************************************************************)
(* The scene's state.                                                      *)
(***************************************************************************)
VARIABLES
  sceneState,     \* create(): "new", "loading" (awaiting loadAssets), "ready", "failed"
  cookie,         \* the digits after "foxHighScore=" in document.cookie
  wallMatrix, player, playerOnLeft, npcs,
  gameStarted, gameOver, levelComplete,
  score, highScore, level,
  keys, isMouseDown, mouseTarget,
  cameraX, cameraY,
  now,            \* performance.now() of the last simulated tick, in ms
  caught,         \* history: chicks marked dead since the last start or restart
  cookieReads,    \* history: number of reads of the cookie
  restarts,       \* history: number of calls of restartGame
  advances,       \* history: number of calls of nextLevel
  frozenUpdate,   \* history: update ran since the game was last over or complete
  genPhase,       \* generateMaze: "idle", "placing" (in its while loop), "done"
  placedCount,    \* generateMaze's local placedCount
  attempts,       \* generateMaze's local attempts
  segments,       \* history: the cell sets of the accepted detached segments
  call,           \* a method called on its own: its name and arguments
  ret,            \* the value the called method returned
  loopPhase,      \* Game: "constructed", "running" (start was called)
  lastTime,       \* Game.lastTime, a double
  accumulator,    \* Game.accumulator, a double
  startTime,      \* history: performance.now() as start read it
  updateCalls,    \* history: number of calls of currentScene.update by loop
  deltaTimes      \* history: the deltaTime arguments of those calls

\* the variables of the scene and of its histories
sceneVars == <<sceneState, cookie, player, playerOnLeft, npcs,
               gameStarted, gameOver, levelComplete, score, highScore, level,
               keys, isMouseDown, mouseTarget, cameraX, cameraY, now,
               caught, cookieReads, restarts, advances, frozenUpdate>>

\* the locals of a generateMaze call that is followed step by step
generatorVars == <<genPhase, placedCount, attempts, segments>>

\* a method call that is followed on its own
callVars == <<call, ret>>

\* the fields of Game and the histories of its loop
loopVars == <<loopPhase, lastTime, accumulator, startTime, updateCalls, deltaTimes>>

vars == <<sceneState, cookie, wallMatrix, player, playerOnLeft, npcs,
          gameStarted, gameOver, levelComplete, score, highScore, level,
          keys, isMouseDown, mouseTarget, cameraX, cameraY, now,
          caught, cookieReads, restarts, advances, frozenUpdate,
          genPhase, placedCount, attempts, segments, call, ret,
          loopPhase, lastTime, accumulator, startTime, updateCalls, deltaTimes>>

\* no method is being followed on its own
NoCall == [fn |-> "none"]

\* the called method has not returned yet / has returned v
NoReturn == [done |-> FALSE]

Returned(v) == [done |-> TRUE, value |-> v]

\* document.cookie without a foxHighScore entry: /foxHighScore=(\d+)/ has no match
NoCookie == << >>

\* mouseTarget = null
NoTarget == << >>

(***************************************************************************)
(* Inputs.                                                                 *)
(***************************************************************************)
\* the keys the input collaborator presses
KeyNames == {"ArrowDown", " "}

\* pointer positions on the canvas, <<clientX - rect.left, clientY - rect.top>>
ScreenPoints == {<<0, 200>>}

\* the cookie the browser holds when the scene is created
CookieValues == {NoCookie, <<0, 1>>}

\* n copies of a cell draw
Rep(c, n) == [i \in 1 .. n |-> c]

\* first drawn cells, then the cell c for the rest of the n attempts
Draws(first, c, n) == [i \in 1 .. n |-> IF i <= Len(first) THEN first[i] ELSE c]

\* The first draws of generateMaze: one vertical segment in column 8, rows 1-2.
MazeDrawSeqs == {<<[h |-> FALSE, len |-> 2, row |-> 1, col |-> 8]>>}

\* Outcomes of the draws of initPlayer and initNPCs:
\*   onLeft  Math.random() < 0.5 of initPlayer
\*   player  the cells initPlayer draws, dog those of the dog's spawnNPC
\*   chicks  one sequence of drawn cells per chick (chickCount of them)
\* A sequence of draws that all hit the bush cell (1, 8) places nothing.
SpawnOutcomes ==
  { \* player in the top-left corner by fallback, one chick below it, the dog
    \* two rows down in the next column
    [onLeft |-> FALSE,
     player |-> Rep(<<8, 1>>, SPAWN_ATTEMPTS),
     dog |-> Rep(<<1, 2>>, SPAWN_ATTEMPTS),
     chicks |-> <<Rep(<<0, 1>>, SPAWN_ATTEMPTS), Rep(<<8, 1>>, SPAWN_ATTEMPTS),
                 Rep(<<8, 1>>, SPAWN_ATTEMPTS), Rep(<<8, 1>>, SPAWN_ATTEMPTS)>>],
    \* the same player, dog and first chick, a second chick in the far corner
    [onLeft |-> FALSE,
     player |-> Rep(<<8, 1>>, SPAWN_ATTEMPTS),
     dog |-> Rep(<<1, 2>>, SPAWN_ATTEMPTS),
     chicks |-> <<Rep(<<0, 1>>, SPAWN_ATTEMPTS), Rep(<<10, 5>>, SPAWN_ATTEMPTS),
                 Rep(<<8, 1>>, SPAWN_ATTEMPTS), Rep(<<8, 1>>, SPAWN_ATTEMPTS)>>],
    \* the same player and dog, every attempt of every chick fails
    [onLeft |-> FALSE,
     player |-> Rep(<<8, 1>>, SPAWN_ATTEMPTS),
     dog |-> Rep(<<1, 2>>, SPAWN_ATTEMPTS),
     chicks |-> <<Rep(<<8, 1>>, SPAWN_ATTEMPTS), Rep(<<8, 1>>, SPAWN_ATTEMPTS),
                 Rep(<<8, 1>>, SPAWN_ATTEMPTS), Rep(<<8, 1>>, SPAWN_ATTEMPTS),
                 Rep(<<8, 1>>, SPAWN_ATTEMPTS)>>] }

\* the random input of the NPC updates of one tick, per NPC type
NpcRandoms ==
  { [wander |-> Rep(<<0, 0>>, WANDER_ATTEMPTS), cooldown |-> 0, jx |-> 5, jy |-> 5] }

TickRandoms == [dog : NpcRandoms, chick : NpcRandoms]

(***************************************************************************)
(* Game and level state.                                                   *)
(***************************************************************************)
\* the fields of a new MazeScene and the histories
SceneInit ==
  /\ sceneState = "new"
  /\ cookie \in CookieValues
  /\ wallMatrix = << >>
  /\ player = [x |-> 0, y |-> 0, width |-> 0, height |-> 0]
  /\ playerOnLeft = TRUE
  /\ npcs = << >>
  /\ gameStarted = FALSE
  /\ gameOver = FALSE
  /\ levelComplete = FALSE
  /\ score = 0
  /\ highScore = 0
  /\ level = 1
  /\ keys = {}
  /\ isMouseDown = FALSE
  /\ mouseTarget = NoTarget
  /\ cameraX = 0
  /\ cameraY = 0
  /\ now = 0
  /\ caught = 0
  /\ cookieReads = 0
  /\ restarts = 0
  /\ advances = 0
  /\ frozenUpdate = FALSE

\* the fields of a new Game (part_001 10-11) and the histories of its loop
GameInit ==
  /\ loopPhase = "constructed"
  /\ lastTime = DoubleZero
  /\ accumulator = DoubleZero
  /\ startTime = DoubleZero
  /\ updateCalls = 0
  /\ deltaTimes = {}

Init ==
  /\ SceneInit
  /\ GameInit
  /\ genPhase = "idle"
  /\ placedCount = 0
  /\ attempts = 0
  /\ segments = {}
  /\ call = NoCall
  /\ ret = NoReturn

\* parseInt(digits, 10)
RECURSIVE parseInt(_)
parseInt(ds) ==
  IF ds = << >> THEN 0
  ELSE 10 * parseInt(SubSeq(ds, 1, Len(ds) - 1)) + ds[Len(ds)]

\* the decimal digits `${n}` prints for a whole number n >= 0
RECURSIVE ToDigits(_)
ToDigits(n) == IF n < 10 THEN <<n>> ELSE Append(ToDigits(n \div 10), n % 10)

\* saveHighScore writing the high score as it was before the catch
saveHighScoreStale(hs) == ToDigits(hs - 1)

\* loadHighScore: highScore after the call, for the cookie digits c
loadHighScore(c, hs) == IF c # NoCookie THEN parseInt(c) ELSE hs

\* saveHighScore: the cookie's digits after writing highScore
saveHighScore(hs) == ToDigits(hs)

\* the draws of a maze are draws placeDetachedWall can make
MazeDrawsOK(mz) == \A i \in 1 .. Len(mz) : mz[i] \in DetachedDraws

\* the draws of a spawn outcome stay in the columns the code draws from
SpawnOutcomeOK(sp) ==
  \A i \in 1 .. SPAWN_ATTEMPTS :
    /\ sp.player[i][1] \in PlayerMinCol(sp.onLeft) .. PlayerMaxCol(sp.onLeft)
    /\ sp.dog[i][1] \in DogMinCol(sp.onLeft) .. DogMaxCol(sp.onLeft)

\* generateMaze, initPlayer, initNPCs as create / restartGame / nextLevel call
\* them in a row (this.npcs is empty; renderMapToBuffer only draws)
LevelOf(mz, sp) ==
  LET m == generateMaze(mz)
      p == initPlayer(m, sp.player)
  IN [wallMatrix |-> m, playerOnLeft |-> sp.onLeft, player |-> p,
      npcs |-> initNPCs(m, p, sp.dog, sp.chicks)]

\* every level the draws of the model generate
GeneratedLevels ==
  {LevelOf(mz, sp) : mz \in {z \in MazeDrawSeqs : MazeDrawsOK(z)},
                     sp \in {o \in SpawnOutcomes : SpawnOutcomeOK(o)}}

Regenerate ==
  \E g \in GeneratedLevels :
    /\ wallMatrix' = g.wallMatrix
    /\ playerOnLeft' = g.playerOnLeft
    /\ player' = g.player
    /\ npcs' = g.npcs

\* create() up to its await: loadHighScore, then loadAssets is pending
Create ==
  /\ sceneState = "new"
  /\ sceneState' = "loading"
  /\ highScore' = loadHighScore(cookie, highScore)
  /\ cookieReads' = cookieReads + 1
  /\ UNCHANGED <<cookie, wallMatrix, player, playerOnLeft, npcs, gameStarted,
                 gameOver, levelComplete, score, level, keys, isMouseDown,
                 mouseTarget, cameraX, cameraY, now, caught, restarts, advances,
                 frozenUpdate>>
  /\ UNCHANGED <<generatorVars, callVars, loopVars>>

\* loadAssets resolved: the rest of create(), ending with setupInput
AssetsLoaded ==
  /\ sceneState = "loading"
  /\ sceneState' = "ready"
  /\ Regenerate
  /\ UNCHANGED <<cookie, gameStarted, gameOver, levelComplete, score, highScore,
                 level, keys, isMouseDown, mouseTarget, cameraX, cameraY, now,
                 caught, cookieReads, restarts, advances, frozenUpdate>>
  /\ UNCHANGED <<generatorVars, callVars, loopVars>>

\* loadAssets rejected, the rejection swallowed and the level set up all the same
AssetsFailedSetUp ==
  /\ sceneState = "loading"
  /\ sceneState' = "failed"
  /\ Regenerate
  /\ UNCHANGED <<cookie, gameStarted, gameOver, levelComplete, score, highScore,
                 level, keys, isMouseDown, mouseTarget, cameraX, cameraY, now,
                 caught, cookieReads, restarts, advances, frozenUpdate>>
  /\ UNCHANGED <<generatorVars, callVars, loopVars>>

\* loadAssets rejected: create() rejects at its await
AssetsFailed ==
  /\ sceneState = "loading"
  /\ sceneState' = "failed"
  /\ UNCHANGED <<cookie, wallMatrix, player, playerOnLeft, npcs, gameStarted,
                 gameOver, levelComplete, score, highScore, level, keys,
                 isMouseDown, mouseTarget, cameraX, cameraY, now, caught,
                 cookieReads, restarts, advances, frozenUpdate>>
  /\ UNCHANGED <<generatorVars, callVars, loopVars>>

startGame ==
  /\ gameStarted' = TRUE
  /\ UNCHANGED <<wallMatrix, player, playerOnLeft, npcs, gameOver, levelComplete,
                 score, level, caught, restarts, advances, frozenUpdate>>

\* restartGame without `this.levelComplete = false`
restartGameKeepingComplete ==
  /\ gameOver' = FALSE
  /\ score' = 0
  /\ level' = 1
  /\ Regenerate
  /\ caught' = 0
  /\ restarts' = restarts + 1
  /\ frozenUpdate' = FALSE
  /\ UNCHANGED <<gameStarted, advances, levelComplete>>

\* restartGame without `this.score = 0`
restartGameKeepingScore ==
  /\ gameOver' = FALSE
  /\ levelComplete' = FALSE
  /\ level' = 1
  /\ Regenerate
  /\ caught' = 0
  /\ restarts' = restarts + 1
  /\ frozenUpdate' = FALSE
  /\ UNCHANGED <<gameStarted, advances, score>>

restartGame ==
  /\ gameOver' = FALSE
  /\ levelComplete' = FALSE
  /\ score' = 0
  /\ level' = 1
  /\ Regenerate
  /\ caught' = 0
  /\ restarts' = restarts + 1
  /\ frozenUpdate' = FALSE
  /\ UNCHANGED <<gameStarted, advances>>

\* nextLevel with `this.level += 2`
nextLevelSkipping ==
  /\ level < MaxLevel
  /\ levelComplete' = FALSE
  /\ level' = level + 2
  /\ Regenerate
  /\ advances' = advances + 1
  /\ frozenUpdate' = FALSE
  /\ UNCHANGED <<gameStarted, gameOver, score, caught, restarts>>

nextLevel ==
  /\ level < MaxLevel
  /\ levelComplete' = FALSE
  /\ level' = level + 1
  /\ Regenerate
  /\ advances' = advances + 1
  /\ frozenUpdate' = FALSE
  /\ UNCHANGED <<gameStarted, gameOver, score, caught, restarts>>

\* the branch shared by the Space key, mousedown and touchstart; FALSE when
\* the game is being played and the event goes on to its own handling
StartInputHandled == ~gameStarted \/ gameOver \/ levelComplete

StartInput ==
  IF ~gameStarted THEN startGame
  ELSE IF gameOver THEN restartGame
  ELSE levelComplete /\ nextLevel

Unplayed ==
  UNCHANGED <<wallMatrix, player, playerOnLeft, npcs, gameStarted, gameOver,
              levelComplete, score, level, caught, restarts, advances,
              frozenUpdate>>

\* the keydown listener registered before create() awaits loadAssets
KeyDownEarly(k) ==
  /\ sceneState # "new"
  /\ keys' = keys \cup {k}
  /\ IF k = " " /\ StartInputHandled THEN StartInput ELSE Unplayed
  /\ UNCHANGED <<sceneState, cookie, highScore, isMouseDown, mouseTarget,
                 cameraX, cameraY, now, cookieReads>>
  /\ UNCHANGED <<generatorVars, callVars, loopVars>>

\* keydown listener 646-658
KeyDown(k) ==
  /\ sceneState = "ready"
  /\ keys' = keys \cup {k}
  /\ IF k = " " /\ StartInputHandled THEN StartInput ELSE Unplayed
  /\ UNCHANGED <<sceneState, cookie, highScore, isMouseDown, mouseTarget,
                 cameraX, cameraY, now, cookieReads>>
  /\ UNCHANGED <<generatorVars, callVars, loopVars>>

\* keyup listener 659-661
KeyUp(k) ==
  /\ sceneState = "ready"
  /\ k \in keys
  /\ keys' = keys \ {k}
  /\ Unplayed
  /\ UNCHANGED <<sceneState, cookie, highScore, isMouseDown, mouseTarget,
                 cameraX, cameraY, now, cookieReads>>
  /\ UNCHANGED <<generatorVars, callVars, loopVars>>

\* getWorldPos 664-673
getWorldPos(pt) == <<pt[1] + cameraX, pt[2] + cameraY>>

\* mousedown listener 676-691 and touchstart listener 704-721
PointerDown(pt) ==
  /\ sceneState = "ready"
  /\ IF StartInputHandled
     THEN StartInput /\ UNCHANGED <<isMouseDown, mouseTarget>>
     ELSE /\ isMouseDown' = TRUE
          /\ mouseTarget' = getWorldPos(pt)
          /\ Unplayed
  /\ UNCHANGED <<sceneState, cookie, highScore, keys, cameraX, cameraY, now,
                 cookieReads>>
  /\ UNCHANGED <<generatorVars, callVars, loopVars>>

MouseDown(pt) == PointerDown(pt)

TouchStart(pt) == PointerDown(pt)

\* mousemove listener 693-697 and touchmove listener 723-729
PointerMove(pt) ==
  /\ sceneState = "ready"
  /\ mouseTarget' = IF isMouseDown /\ ~gameOver THEN getWorldPos(pt) ELSE mouseTarget
  /\ Unplayed
  /\ UNCHANGED <<sceneState, cookie, highScore, keys, isMouseDown, cameraX,
                 cameraY, now, cookieReads>>
  /\ UNCHANGED <<generatorVars, callVars, loopVars>>

MouseMove(pt) == PointerMove(pt)

TouchMove(pt) == PointerMove(pt)

\* mouseup listener 699-701 and touchend listener 731-733
PointerUp ==
  /\ sceneState = "ready"
  /\ isMouseDown' = FALSE
  /\ Unplayed
  /\ UNCHANGED <<sceneState, cookie, highScore, keys, mouseTarget, cameraX,
                 cameraY, now, cookieReads>>
  /\ UNCHANGED <<generatorVars, callVars, loopVars>>

MouseUp == PointerUp

TouchEnd == PointerUp

(***************************************************************************)
(* The simulation tick.                                                    *)
(***************************************************************************)
\* the attempted position with the pointer's step added to the keys' step
AttemptedMoveKeysToo(p, ks, down, target) ==
  LET kx == p.x - (IF "ArrowLeft" \in ks THEN PLAYER_SPEED ELSE 0)
                + (IF "ArrowRight" \in ks THEN PLAYER_SPEED ELSE 0)
      ky == p.y - (IF "ArrowUp" \in ks THEN PLAYER_SPEED ELSE 0)
                + (IF "ArrowDown" \in ks THEN PLAYER_SPEED ELSE 0)
  IN IF target # NoTarget /\ down
     THEN LET dx == target[1] - (p.x + p.width \div 2)
              dy == target[2] - (p.y + p.height \div 2)
              d2 == dx * dx + dy * dy
          IN IF d2 > POINTER_DEAD_ZONE * POINTER_DEAD_ZONE
             THEN <<kx + Component(dx, d2, PLAYER_SPEED, 1, 1),
                    ky + Component(dy, d2, PLAYER_SPEED, 1, 1)>>
             ELSE <<kx, ky>>
     ELSE <<kx, ky>>

\* update 1098-1124: the attempted position <<newX, newY>>
AttemptedMove(p, ks, down, target) ==
  LET kx == p.x - (IF "ArrowLeft" \in ks THEN PLAYER_SPEED ELSE 0)
                + (IF "ArrowRight" \in ks THEN PLAYER_SPEED ELSE 0)
      ky == p.y - (IF "ArrowUp" \in ks THEN PLAYER_SPEED ELSE 0)
                + (IF "ArrowDown" \in ks THEN PLAYER_SPEED ELSE 0)
  IN IF target # NoTarget /\ down
     THEN LET dx == target[1] - (p.x + p.width \div 2)
              dy == target[2] - (p.y + p.height \div 2)
              d2 == dx * dx + dy * dy
          IN IF d2 > POINTER_DEAD_ZONE * POINTER_DEAD_ZONE
             THEN <<p.x + Component(dx, d2, PLAYER_SPEED, 1, 1),
                    p.y + Component(dy, d2, PLAYER_SPEED, 1, 1)>>
             ELSE <<kx, ky>>
     ELSE <<kx, ky>>

\* update without the clamp of lines 1134-1136
ClampPlayerNone(p) == p

\* update 1134-1136: the clamp of the player to the map
ClampPlayer(p) ==
  [p EXCEPT !.x = Max(0, Min(p.x, MAP_WIDTH - p.width)),
            !.y = Max(0, Min(p.y, MAP_HEIGHT - p.height))]

\* the resolution testing the Y move at the old X
MovePlayerYAtOldX(m, ns, p, new) ==
  LET x1 == IF ~collidesWithWall(m, ns, new[1], p.y) THEN new[1] ELSE p.x
      y1 == IF ~collidesWithWall(m, ns, p.x, new[2]) THEN new[2] ELSE p.y
  IN ClampPlayer([p EXCEPT !.x = x1, !.y = y1])

\* update 1126-1136: per-axis resolution of the attempted move, then the clamp
MovePlayer(m, ns, p, new) ==
  LET x1 == IF ~collidesWithWall(m, ns, new[1], p.y) THEN new[1] ELSE p.x
      y1 == IF ~collidesWithWall(m, ns, x1, new[2]) THEN new[2] ELSE p.y
  IN ClampPlayer([p EXCEPT !.x = x1, !.y = y1])

\* the session values checkChickCollisions reads and writes
Session(ns, sc, hs, ck, lc) ==
  [npcs |-> ns, score |-> sc, highScore |-> hs, cookie |-> ck,
   levelComplete |-> lc]

\* the loop body without `this.score++` and what follows from it
CatchChickUnscored(s, p, i) ==
  LET npc == s.npcs[i]
  IN IF npc.type = "chick" /\ ~npc.dead /\ hitboxesOverlap(p.x, p.y, npc.x, npc.y)
     THEN LET ns == [s.npcs EXCEPT ![i].dead = TRUE]
              aliveChicks == {j \in 1 .. Len(ns) : ns[j].type = "chick" /\ ~ns[j].dead}
          IN Session(ns, s.score, s.highScore, s.cookie,
                     IF aliveChicks = {} THEN TRUE ELSE s.levelComplete)
     ELSE s

\* the loop body setting levelComplete at every catch
CatchChickAlwaysCompletes(s, p, i) ==
  LET npc == s.npcs[i]
  IN IF npc.type = "chick" /\ ~npc.dead /\ hitboxesOverlap(p.x, p.y, npc.x, npc.y)
     THEN LET ns == [s.npcs EXCEPT ![i].dead = TRUE]
              sc == s.score + 1
              record == sc > s.highScore
          IN Session(ns, sc,
                     IF record THEN sc ELSE s.highScore,
                     IF record THEN saveHighScore(sc) ELSE s.cookie,
                     TRUE)
     ELSE s

\* checkChickCollisions 1327-1345: the loop body for NPC i
CatchChick(s, p, i) ==
  LET npc == s.npcs[i]
  IN IF npc.type = "chick" /\ ~npc.dead /\ hitboxesOverlap(p.x, p.y, npc.x, npc.y)
     THEN LET ns == [s.npcs EXCEPT ![i].dead = TRUE]
              sc == s.score + 1
              record == sc > s.highScore
              aliveChicks == {j \in 1 .. Len(ns) : ns[j].type = "chick" /\ ~ns[j].dead}
          IN Session(ns, sc,
                     IF record THEN sc ELSE s.highScore,
                     IF record THEN saveHighScore(sc) ELSE s.cookie,
                     IF aliveChicks = {} THEN TRUE ELSE s.levelComplete)
     ELSE s

RECURSIVE ChickLoop(_, _, _)
ChickLoop(s, p, i) ==
  IF i > Len(s.npcs) THEN s ELSE ChickLoop(CatchChick(s, p, i), p, i + 1)

checkChickCollisions(s, p) == ChickLoop(s, p, 1)

\* checkDogCollision testing dead dogs only
checkDogCollisionDeadOnly(ns, p, over) ==
  IF \E i \in 1 .. Len(ns) :
       /\ ns[i].type = "dog"
       /\ ns[i].dead
       /\ hitboxesOverlap(p.x, p.y, ns[i].x, ns[i].y)
  THEN TRUE
  ELSE over

\* checkDogCollision: the value of gameOver after the call
checkDogCollision(ns, p, over) ==
  IF \E i \in 1 .. Len(ns) :
       /\ ns[i].type = "dog"
       /\ ~ns[i].dead
       /\ hitboxesOverlap(p.x, p.y, ns[i].x, ns[i].y)
  THEN TRUE
  ELSE over

\* update 1148-1154: the camera centred on the player, clamped to the map
\* the camera offset without the clamp to the right edge of the map
CameraXOfUnclamped(p) == Max(0, p.x + p.width \div 2 - VIEWPORT_WIDTH \div 2)

CameraXOf(p) ==
  Max(0, Min(p.x + p.width \div 2 - VIEWPORT_WIDTH \div 2, MAP_WIDTH - VIEWPORT_WIDTH))

CameraYOf(p) ==
  Max(0, Min(p.y + p.height \div 2 - VIEWPORT_HEIGHT \div 2, MAP_HEIGHT - VIEWPORT_HEIGHT))

\* the player after the movement part of a tick
PlayerAfterMove == MovePlayer(wallMatrix, npcs, player,
                              AttemptedMove(player, keys, isMouseDown, mouseTarget))

\* update before the game is started: the title screen
UpdateTitle ==
  /\ sceneState # "new"
  /\ ~gameStarted
  /\ UNCHANGED vars

\* update moving the player although the game is over or the level complete
UpdateFrozenMoving ==
  /\ sceneState = "ready"
  /\ gameStarted
  /\ gameOver \/ levelComplete
  /\ player' = PlayerAfterMove
  /\ cameraX' = CameraXOf(player)
  /\ cameraY' = CameraYOf(player)
  /\ frozenUpdate' = TRUE
  /\ UNCHANGED <<sceneState, cookie, wallMatrix, playerOnLeft, npcs,
                 gameStarted, gameOver, levelComplete, score, highScore, level,
                 keys, isMouseDown, mouseTarget, now, caught, cookieReads,
                 restarts, advances>>
  /\ UNCHANGED <<generatorVars, callVars, loopVars>>

\* update while game over or level complete: only the camera and the drawing
UpdateFrozen ==
  /\ sceneState = "ready"
  /\ gameStarted
  /\ gameOver \/ levelComplete
  /\ cameraX' = CameraXOf(player)
  /\ cameraY' = CameraYOf(player)
  /\ frozenUpdate' = TRUE
  /\ UNCHANGED <<sceneState, cookie, wallMatrix, player, playerOnLeft, npcs,
                 gameStarted, gameOver, levelComplete, score, highScore, level,
                 keys, isMouseDown, mouseTarget, now, caught, cookieReads,
                 restarts, advances>>
  /\ UNCHANGED <<generatorVars, callVars, loopVars>>

\* update 1139-1142: updateNPCs at time t, then checkChickCollisions, for the
\* player moved to p
TickOutcome(p, t, rnd) ==
  checkChickCollisions(
    Session(updateNPCs(wallMatrix, npcs, p, t, level, rnd),
            score, highScore, cookie, levelComplete), p)

\* the NPCs of ns that after are dead and before were not
NewlyDead(before, after) ==
  {i \in 1 .. Len(after) : after[i].dead /\ ~before[i].dead}

\* update while playing: one simulated tick (1096-1154)
Tick ==
  /\ sceneState = "ready"
  /\ gameStarted
  /\ ~gameOver /\ ~levelComplete
  /\ now < MaxTicks * FRAME_TIME
  /\ \E rnd \in TickRandoms :
     \E p \in {PlayerAfterMove} :
     \E s \in {TickOutcome(p, now + FRAME_TIME, rnd)} :
          /\ now' = now + FRAME_TIME
          /\ player' = p
          /\ npcs' = s.npcs
          /\ score' = s.score
          /\ highScore' = s.highScore
          /\ cookie' = s.cookie
          /\ levelComplete' = s.levelComplete
          /\ caught' = caught + Cardinality(NewlyDead(npcs, s.npcs))
          /\ gameOver' = checkDogCollision(s.npcs, p, gameOver)
          /\ cameraX' = CameraXOf(p)
          /\ cameraY' = CameraYOf(p)
  /\ UNCHANGED <<sceneState, wallMatrix, playerOnLeft, gameStarted, level, keys,
                 isMouseDown, mouseTarget, cookieReads, restarts, advances,
                 frozenUpdate>>
  /\ UNCHANGED <<generatorVars, callVars, loopVars>>

Update == UpdateTitle \/ UpdateFrozen \/ Tick

Next ==
  \/ Create
  \/ AssetsLoaded
  \/ AssetsFailed
  \/ \E k \in KeyNames : KeyDown(k)
  \/ \E k \in KeyNames : KeyUp(k)
  \/ \E pt \in ScreenPoints : MouseDown(pt)
  \/ \E pt \in ScreenPoints : MouseMove(pt)
  \/ MouseUp
  \/ \E pt \in ScreenPoints : TouchStart(pt)
  \/ \E pt \in ScreenPoints : TouchMove(pt)
  \/ TouchEnd
  \/ Update

Spec == Init /\ [][Next]_vars

(***************************************************************************)
(* Vocabulary of the properties.                                           *)
(***************************************************************************)
\* the phases, read off the flags in the order the input handlers test them
InNotStarted == ~gameStarted
InGameOver == gameStarted /\ gameOver
InLevelComplete == gameStarted /\ ~gameOver /\ levelComplete
InPlaying == gameStarted /\ ~gameOver /\ ~levelComplete

\* a step of a start input: the Space key, mouse down or touch start
StartInputStep == KeyDown(" ") \/ \E pt \in ScreenPoints : PointerDown(pt)

\* a step that simulates a tick in the playing phase
TickStep == now' # now

LiveChicks(ns) == {i \in 1 .. Len(ns) : ns[i].type = "chick" /\ ~ns[i].dead}

Chicks(ns) == {i \in 1 .. Len(ns) : ns[i].type = "chick"}

LiveDogOverlaps(ns, p) ==
  \E i \in 1 .. Len(ns) :
    /\ ns[i].type = "dog"
    /\ ~ns[i].dead
    /\ hitboxesOverlap(p.x, p.y, ns[i].x, ns[i].y)

\* the step ends with a freshly generated level
Regenerated ==
  \E g \in GeneratedLevels :
    /\ wallMatrix' = g.wallMatrix
    /\ playerOnLeft' = g.playerOnLeft
    /\ player' = g.player
    /\ npcs' = g.npcs

PhaseTransitions ==
  [][ /\ InNotStarted' => InNotStarted
      /\ InNotStarted /\ ~InNotStarted' => InPlaying' /\ StartInputStep
      /\ InPlaying /\ ~InPlaying' => (InGameOver' \/ InLevelComplete') /\ Tick
      /\ InGameOver /\ ~InGameOver' => InPlaying' /\ StartInputStep
      /\ InLevelComplete /\ ~InLevelComplete' => InPlaying' /\ StartInputStep
    ]_vars

\* C2 witness: a session that went through LevelComplete back to Playing
PlayingSecondLevel == InPlaying /\ advances = 1 /\ level = 2

\* C3: when the positions a simulated tick ends with have a live dog's
\* hitbox overlapping the player's, gameOver is true at the end of that tick
DogOverlapEndsGame ==
  [][ TickStep /\ LiveDogOverlaps(npcs', player') => gameOver' ]_vars

\* C3 witness: the game is over with the dog on the player
CaughtByDog == gameOver /\ LiveDogOverlaps(npcs, player) /\ now > 0

\* C4: while gameOver is true every step but restartGame leaves score, level,
\* highScore, the player and the NPCs (positions and dead flags) unchanged and
\* nextLevel does not run; while levelComplete is true every step but
\* nextLevel or restartGame leaves score, level, the player and the NPCs
\* unchanged
FrozenWhenOver ==
  [][ /\ gameOver /\ restarts' = restarts =>
           UNCHANGED <<score, level, highScore, player, npcs>>
      /\ gameOver => advances' = advances
      /\ levelComplete /\ restarts' = restarts /\ advances' = advances =>
           UNCHANGED <<score, level, player, npcs>>
    ]_vars

\* C4 witness: update has run after the game was over, with a movement key held
UpdatedWhileOver == gameOver /\ frozenUpdate /\ "ArrowDown" \in keys

\* C5 (as claimed): a simulated tick that ends with no live chick ends with
\* levelComplete true
NoQuarryCompletes ==
  [][ TickStep /\ LiveChicks(npcs') = {} => levelComplete' ]_vars

HighScoreKept ==
  /\ [](highScore >= score)
  /\ [](cookieReads <= 1)
  /\ [][ /\ highScore' >= highScore
         /\ TickStep /\ highScore' # highScore =>
              cookie' # NoCookie /\ parseInt(cookie') = highScore'
         /\ restarts' # restarts \/ advances' # advances => highScore' = highScore
         /\ cookieReads' # cookieReads => sceneState = "new" /\ sceneState' = "loading"
       ]_vars

\* C7 witness: a catch raised the high score from 0 and the cookie holds it
HighScoreRaised ==
  /\ score = 1 /\ highScore = 1 /\ cookie = <<1>> /\ cookieReads = 1

\* C8: restartGame runs exactly on a start input received while the game is
\* started and over; it sets score to 0 and level to 1, clears gameOver and
\* levelComplete, replaces maze, player and NPCs by generated ones and leaves
\* highScore and gameStarted unchanged
RestartResets ==
  [][ /\ restarts' # restarts =>
           /\ gameStarted /\ gameOver /\ StartInputStep
           /\ score' = 0 /\ level' = 1 /\ ~gameOver' /\ ~levelComplete'
           /\ Regenerated
           /\ highScore' = highScore /\ gameStarted' = gameStarted
      /\ StartInputStep /\ gameStarted /\ gameOver => restarts' = restarts + 1
    ]_vars

\* C8 witness: restarted after a game that had scored and set a high score
RestartedAfterScoring ==
  /\ restarts = 1 /\ score = 0 /\ level = 1
  /\ highScore = 1 /\ cookie = <<1>>
  /\ gameStarted /\ ~gameOver /\ ~levelComplete

\* C9: nextLevel runs only on a start input received while levelComplete is
\* true and gameOver false, with no chick alive; it adds 1 to level, keeps
\* score, clears levelComplete and replaces maze, player and NPCs by generated
\* ones; level starts at 1, stays >= 1 and otherwise changes only when
\* restartGame sets it to 1
NextLevelAdvances ==
  /\ [](level >= 1)
  /\ [](sceneState = "new" => level = 1)
  /\ [][ /\ advances' # advances =>
              /\ gameStarted /\ levelComplete /\ ~gameOver /\ StartInputStep
              /\ LiveChicks(npcs) = {}
              /\ level' = level + 1 /\ score' = score /\ ~levelComplete'
              /\ Regenerated
         /\ level' # level =>
              advances' # advances \/ (restarts' # restarts /\ level' = 1)
       ]_vars

\* C9 witness: the second level was entered with the first level's score
AdvancedWithScore == advances = 1 /\ level = 2 /\ score = 1 /\ ~levelComplete

\* C10: the player and every NPC are inside the map
PositionsInMap ==
  /\ 0 <= player.x /\ player.x <= MAP_WIDTH - player.width
  /\ 0 <= player.y /\ player.y <= MAP_HEIGHT - player.height
  /\ \A i \in 1 .. Len(npcs) :
       /\ 0 <= npcs[i].x /\ npcs[i].x <= MAP_WIDTH - NPC_SIZE
       /\ 0 <= npcs[i].y /\ npcs[i].y <= MAP_HEIGHT - NPC_SIZE

\* C10 witness: the player, placed by the spawn fallback, was steered by the
\* pointer towards the left edge and kept at x = 0
KeptAtLeftEdge ==
  /\ player.x = 0 /\ player.y > 0 /\ player.y % PLAYER_SPEED # 0
  /\ isMouseDown /\ mouseTarget # NoTarget /\ now > 0

(***************************************************************************)
(* generateMaze followed attempt by attempt.                               *)
(***************************************************************************)
\* the while condition of generateMaze without its test of placedCount
LoopContinuesPastTarget(placed, att) == att < MAX_PLACEMENT_ATTEMPTS

\* generateMaze 930: the while condition
LoopContinues(placed, att) ==
  placed < NUM_DETACHED_WALLS /\ att < MAX_PLACEMENT_ATTEMPTS

\* The draws an attempt makes: six vertical segments that fit together, a
\* horizontal one of length 5 that crosses two of them, one on the
\* intersecting pair, one beside it, and a vertical one of length 5, for
\* which placeDetachedWall finds no start row.
MazeStepDraws ==
  { [h |-> FALSE, len |-> 2, row |-> 1, col |-> 6],
    [h |-> FALSE, len |-> 2, row |-> 1, col |-> 8],
    [h |-> FALSE, len |-> 2, row |-> 3, col |-> 1],
    [h |-> FALSE, len |-> 2, row |-> 3, col |-> 5],
    [h |-> FALSE, len |-> 2, row |-> 3, col |-> 7],
    [h |-> FALSE, len |-> 2, row |-> 3, col |-> 9],
    [h |-> TRUE, len |-> 5, row |-> 4, col |-> 4],
    [h |-> TRUE, len |-> 3, row |-> 2, col |-> 2],
    [h |-> FALSE, len |-> 2, row |-> 3, col |-> 4],
    [h |-> FALSE, len |-> 5, row |-> 1, col |-> 1] } \cap DetachedDraws

\* generateMaze 917-927: the fresh matrix, the intersecting pair, the counters
\* (called by create once the assets are loaded, by restartGame and nextLevel)
GenerateMazeBegin ==
  /\ sceneState = "loading"
  /\ genPhase \in {"idle", "done"}
  /\ wallMatrix' = placeIntersectingPair(EmptyGrid)
  /\ placedCount' = 0
  /\ attempts' = 0
  /\ segments' = {}
  /\ genPhase' = "placing"
  /\ UNCHANGED <<sceneVars, callVars, loopVars>>

\* generateMaze 930-935: one turn of the while loop, drawing d
PlaceAttempt(d) ==
  /\ genPhase = "placing"
  /\ LoopContinues(placedCount, attempts)
  /\ \E res \in {placeDetachedWall(wallMatrix, d)} :
       /\ wallMatrix' = res[1]
       /\ placedCount' = IF res[2] THEN placedCount + 1 ELSE placedCount
       /\ segments' = IF res[2] THEN segments \cup {SegmentCells(d)} ELSE segments
  /\ attempts' = attempts + 1
  /\ UNCHANGED <<genPhase, sceneVars, callVars, loopVars>>

\* generateMaze 930, 937: the loop ends and the method returns
GenerateMazeEnd ==
  /\ genPhase = "placing"
  /\ ~LoopContinues(placedCount, attempts)
  /\ genPhase' = "done"
  /\ UNCHANGED <<wallMatrix, placedCount, attempts, segments, sceneVars, callVars, loopVars>>

InitMaze == Init /\ cookie = NoCookie

NextMaze ==
  \/ Create
  \/ GenerateMazeBegin
  \/ \E d \in MazeStepDraws : PlaceAttempt(d)
  \/ GenerateMazeEnd

SpecMaze == InitMaze /\ [][NextMaze]_vars

\* generateMaze is one synchronous call: its loop is not interrupted
SpecMazeFair ==
  /\ SpecMaze
  /\ WF_vars(\E d \in MazeStepDraws : PlaceAttempt(d))
  /\ WF_vars(GenerateMazeEnd)

(***************************************************************************)
(* Methods called on their own.  A call is a record of the method's name,  *)
(* the fields of the scene it reads and its arguments; the step of the     *)
(* call stores what the method returns.                                    *)
(***************************************************************************)
\* the maze of the first level of the game above
CallMaze == generateMaze(<<[h |-> FALSE, len |-> 2, row |-> 1, col |-> 8]>>)

\* sprite positions of the player: the top-left corner, left of the
\* intersecting pair, corner to corner with its left cell, open grass, the
\* bottom-right corner
CallPlayerSpots == {<<0, 0>>, <<160, 240>>, <<160, 160>>, <<600, 480>>, <<1200, 600>>}

\* the sets of held arrow keys
CallKeySets == SUBSET {"ArrowLeft", "ArrowRight", "ArrowUp", "ArrowDown"}

PlayerAt(at) ==
  [x |-> at[1], y |-> at[2], width |-> PLAYER_FRAME_SIZE, height |-> PLAYER_FRAME_SIZE]

\* isMouseDown and mouseTarget for the player at `at`: no pointer; the pointer
\* held far down-right and far up-left of the player's centre and far to its
\* left; held at distance 10, inside the dead zone, and just outside it; a
\* target left over with the pointer up
CallPointers(at) ==
  LET cx == at[1] + PLAYER_FRAME_SIZE \div 2
      cy == at[2] + PLAYER_FRAME_SIZE \div 2
  IN { [down |-> FALSE, target |-> NoTarget],
       [down |-> TRUE, target |-> <<cx + 300, cy + 400>>],
       [down |-> TRUE, target |-> <<cx - 400, cy - 300>>],
       [down |-> TRUE, target |-> <<cx - 400, cy>>],
       [down |-> TRUE, target |-> <<cx + 6, cy + 8>>],
       [down |-> TRUE, target |-> <<cx + 8, cy + 8>>],
       [down |-> FALSE, target |-> <<cx + 300, cy + 400>>] }

\* an NPC of a type at an offset from a position, kept inside the map
NpcNear(type, at, off, dead) ==
  [NewNpc(type, Max(0, Min(at[1] + off[1], MAP_WIDTH - NPC_SIZE)),
                Max(0, Min(at[2] + off[2], MAP_HEIGHT - NPC_SIZE)))
     EXCEPT !.dead = dead]

\* NPC lists around the player at `at`: none; a chick one step out of reach;
\* a dog one step out of reach; chicks (one of them caught) with the dog
\* away; a dog below and a chick beside; chicks on every side; a dog
\* diagonally off the player, level with it on one axis only (below and to
\* the right, above and to the left)
CallNpcLists(at) ==
  { << >>,
    <<NpcNear("dog", at, <<76, 84>>, FALSE)>>,
    <<NpcNear("dog", at, <<-76, -84>>, FALSE)>>,
    <<NpcNear("chick", at, <<84, 0>>, FALSE)>>,
    <<NpcNear("dog", at, <<84, 0>>, FALSE)>>,
    <<NpcNear("dog", at, <<-360, -240>>, FALSE), NpcNear("chick", at, <<0, 84>>, FALSE),
      NpcNear("chick", at, <<40, 0>>, TRUE)>>,
    <<NpcNear("dog", at, <<0, 84>>, FALSE), NpcNear("chick", at, <<84, 0>>, FALSE)>>,
    <<NpcNear("dog", at, <<360, 240>>, FALSE), NpcNear("chick", at, <<84, 0>>, FALSE),
      NpcNear("chick", at, <<-84, 0>>, FALSE), NpcNear("chick", at, <<0, 84>>, FALSE),
      NpcNear("chick", at, <<0, -84>>, FALSE), NpcNear("chick", at, <<84, 84>>, FALSE)>> }

\* a state between two ticks: no live NPC overlaps the player (a chick would
\* have been caught, a dog would have ended the game) and nothing stands in
\* a bush
BetweenTicks(m, ns, p) ==
  /\ ~HitsBush(m, p.x, p.y)
  /\ \A i \in 1 .. Len(ns) :
       ns[i].dead \/ (/\ ~hitboxesOverlap(p.x, p.y, ns[i].x, ns[i].y)
                      /\ ~HitsBush(m, ns[i].x, ns[i].y))

\* update 1098-1136 with the keys held and the pointer, between two ticks
MovePlayerCalls ==
  {c \in UNION {[fn : {"movePlayer"}, m : {CallMaze}, ns : CallNpcLists(at),
                 p : {PlayerAt(at)}, keys : CallKeySets,
                 pointer : CallPointers(at)] : at \in CallPlayerSpots} :
     BetweenTicks(c.m, c.ns, c.p)}

\* the attempted position of a movePlayer call
CallAttempt(c) == AttemptedMove(c.p, c.keys, c.pointer.down, c.pointer.target)

CallMovePlayer ==
  /\ call.fn = "movePlayer" /\ ~ret.done
  /\ ret' = Returned(MovePlayer(call.m, call.ns, call.p, CallAttempt(call)))
  /\ UNCHANGED <<call, wallMatrix, sceneVars, generatorVars, loopVars>>

\* The cells initPlayer draws, as <<col, row>>: bush cells of its side only
\* (left and right), bush cells and then an open cell beside a bush, an open
\* cell at once
InitPlayerDraws ==
  { Rep(<<3, 3>>, SPAWN_ATTEMPTS), Rep(<<8, 1>>, SPAWN_ATTEMPTS),
    Draws(<<<<2, 2>>, <<3, 1>>>>, <<1, 2>>, SPAWN_ATTEMPTS),
    Draws(<<<<8, 2>>>>, <<9, 1>>, SPAWN_ATTEMPTS),
    Rep(<<10, 5>>, SPAWN_ATTEMPTS) }

InitPlayerCalls == [fn : {"initPlayer"}, m : {CallMaze}, draws : InitPlayerDraws]

CallInitPlayer ==
  /\ call.fn = "initPlayer" /\ ~ret.done
  /\ ret' = Returned(initPlayer(call.m, call.draws))
  /\ UNCHANGED <<call, wallMatrix, sceneVars, generatorVars, loopVars>>

\* Draws of a level's set-up beside those of SpawnOutcomes:
\*   the player placed beside a bush after two draws on bushes, the dog
\*   after one; a chick drawing the player's cell, the dog's cell and then a
\*   free one, a chick drawing that one and then a free one, a chick that
\*   only draws a bush, a chick in a corner;
\*   the player in the top-left corner by fallback, the dog drawing that
\*   corner, a bush and then the cell below; chicks that only draw the
\*   player's cell, the dog's cell and an earlier chick's cell;
\*   a dog that only draws a bush
SetUpDraws ==
  { [onLeft |-> TRUE,
     player |-> Draws(<<<<2, 2>>, <<3, 1>>>>, <<1, 2>>, SPAWN_ATTEMPTS),
     dog |-> Draws(<<<<8, 1>>>>, <<9, 3>>, SPAWN_ATTEMPTS),
     chicks |-> <<Draws(<<<<1, 2>>, <<9, 3>>>>, <<5, 5>>, SPAWN_ATTEMPTS),
                 Draws(<<<<5, 5>>>>, <<0, 0>>, SPAWN_ATTEMPTS),
                 Rep(<<8, 2>>, SPAWN_ATTEMPTS),
                 Rep(<<10, 0>>, SPAWN_ATTEMPTS)>>],
    [onLeft |-> FALSE,
     player |-> Rep(<<8, 1>>, SPAWN_ATTEMPTS),
     dog |-> Draws(<<<<0, 0>>, <<3, 3>>>>, <<0, 1>>, SPAWN_ATTEMPTS),
     chicks |-> <<Rep(<<0, 0>>, SPAWN_ATTEMPTS), Rep(<<0, 1>>, SPAWN_ATTEMPTS),
                 Rep(<<4, 4>>, SPAWN_ATTEMPTS), Rep(<<4, 4>>, SPAWN_ATTEMPTS),
                 Rep(<<10, 5>>, SPAWN_ATTEMPTS)>>],
    [onLeft |-> TRUE,
     player |-> Rep(<<0, 3>>, SPAWN_ATTEMPTS),
     dog |-> Rep(<<8, 1>>, SPAWN_ATTEMPTS),
     chicks |-> <<Rep(<<1, 1>>, SPAWN_ATTEMPTS), Rep(<<4, 1>>, SPAWN_ATTEMPTS),
                 Rep(<<4, 3>>, SPAWN_ATTEMPTS), Rep(<<9, 2>>, SPAWN_ATTEMPTS)>>] }

InitNpcsCalls ==
  {[fn |-> "initNPCs", mz |-> mz, sp |-> sp] :
     mz \in {z \in MazeDrawSeqs : MazeDrawsOK(z)},
     sp \in {o \in SetUpDraws \cup SpawnOutcomes : SpawnOutcomeOK(o)}}

\* create 623-625: generateMaze, initPlayer, initNPCs
CallInitNPCs ==
  /\ call.fn = "initNPCs" /\ ~ret.done
  /\ ret' = Returned(LevelOf(call.mz, call.sp))
  /\ UNCHANGED <<call, wallMatrix, sceneVars, generatorVars, loopVars>>

\* The player positions the camera follows: the map's edges, the positions
\* where the centred viewport meets the map's edges and one pixel to each
\* side of them, the middle of the map; in the top, a middle and the bottom row
CameraSpots == {0, 8, 152, 153, 154, 600, 1046, 1047, 1048, 1192, 1200} \X {0, 304, 600}

FollowCameraCalls == [fn : {"followCamera"}, p : {PlayerAt(at) : at \in CameraSpots}]

\* update 1148-1154: the camera centred on the player and clamped
CallFollowCamera ==
  /\ call.fn = "followCamera" /\ ~ret.done
  /\ ret' = Returned([cameraX |-> CameraXOf(call.p), cameraY |-> CameraYOf(call.p)])
  /\ UNCHANGED <<call, wallMatrix, sceneVars, generatorVars, loopVars>>

\* The matrices getTileIndex is called on: the generated maze, and a blocked
\* cell with each of the 16 combinations of blocked neighbours (in the grid's
\* interior, where all 16 exist, and in two corners, where the neighbours
\* outside the grid are open).  The generator itself produces 7 of the 16.
TileSpots == {<<2, 5>>, <<0, 0>>, <<GRID_ROWS - 1, GRID_COLS - 1>>}

NeighbourSets(c) ==
  SUBSET ({<<c[1] - 1, c[2]>>, <<c[1] + 1, c[2]>>, <<c[1], c[2] - 1>>, <<c[1], c[2] + 1>>}
            \cap (Rows \X Cols))

\* the calls on the blocked cell c with each set of blocked neighbours
TileCallsAt(c) ==
  UNION {[fn : {"getTileIndex"}, m : {SetWalls(EmptyGrid, {c} \cup nb)},
          row : {c[1]}, col : {c[2]}] : nb \in NeighbourSets(c)}

GetTileIndexCalls ==
  UNION {TileCallsAt(c) : c \in TileSpots}
  \cup {c \in [fn : {"getTileIndex"}, m : {CallMaze}, row : Rows, col : Cols] :
          c.m[c.row][c.col]}

\* render 1201-1204 calling getTileIndex(row, col)
CallGetTileIndex ==
  /\ call.fn = "getTileIndex" /\ ~ret.done
  /\ ret' = Returned(getTileIndex(call.m, call.row, call.col))
  /\ UNCHANGED <<call, wallMatrix, sceneVars, generatorVars, loopVars>>

\* hitboxesOverlap on two sprite positions: a, and b at an offset from a
\* around the hitbox size, on each axis
OverlapOffsets ==
  {-HITBOX_SIZE - 1, -HITBOX_SIZE, 1 - HITBOX_SIZE, -1, 0, 1,
   HITBOX_SIZE - 1, HITBOX_SIZE, HITBOX_SIZE + 1}

HitboxesOverlapCalls ==
  UNION {[fn : {"hitboxesOverlap"}, a : {a},
          b : {<<a[1] + dx, a[2] + dy>> : dx \in OverlapOffsets, dy \in OverlapOffsets}] :
         a \in {<<120, 240>>, <<600, 300>>}}

\* spawnNPC, checkChickCollisions, checkDogCollision calling hitboxesOverlap
CallHitboxesOverlap ==
  /\ call.fn = "hitboxesOverlap" /\ ~ret.done
  /\ ret' = Returned(hitboxesOverlap(call.a[1], call.a[2], call.b[1], call.b[2]))
  /\ UNCHANGED <<call, wallMatrix, sceneVars, generatorVars, loopVars>>

\* isWall on rows and columns inside and up to two cells outside the grid
IsWallCalls ==
  [fn : {"isWall"}, m : {CallMaze},
   row : -2 .. (GRID_ROWS + 1), col : -2 .. (GRID_COLS + 1)]

\* getTileIndex 1023-1026 calling isWall
CallIsWall ==
  /\ call.fn = "isWall" /\ ~ret.done
  /\ ret' = Returned(isWall(call.m, call.row, call.col))
  /\ UNCHANGED <<call, wallMatrix, sceneVars, generatorVars, loopVars>>

\* sprite positions tested for a collision: on the map, beside and on bushes
\* and edges, and off the map on every side (where the cells looked up have
\* rows or columns outside the grid)
CollisionXs == {-260, -140, -100, -20, 0, 160, 880, 960, 1200, 1221, 1300, 1460}

CollisionYs == {-260, -140, -20, 0, 120, 240, 600, 621, 760}

\* collidesWithWall with no NPC on the map, and npcCollidesWithWall
CollisionCalls ==
  [fn : {"collidesWithWall"}, m : {CallMaze}, ns : {<< >>},
   x : CollisionXs, y : CollisionYs]
  \cup [fn : {"npcCollidesWithWall"}, m : {CallMaze}, x : CollisionXs, y : CollisionYs]

\* update 1126-1132 calling collidesWithWall
CallCollidesWithWall ==
  /\ call.fn = "collidesWithWall" /\ ~ret.done
  /\ ret' = Returned(collidesWithWall(call.m, call.ns, call.x, call.y))
  /\ UNCHANGED <<call, wallMatrix, sceneVars, generatorVars, loopVars>>

\* moveNpcToward / moveNpcAway calling npcCollidesWithWall
CallNpcCollidesWithWall ==
  /\ call.fn = "npcCollidesWithWall" /\ ~ret.done
  /\ ret' = Returned(npcCollidesWithWall(call.m, call.x, call.y))
  /\ UNCHANGED <<call, wallMatrix, sceneVars, generatorVars, loopVars>>

\* sprite positions of two agents: on either side of the bush of column 8 and
\* of the bush of cell (2, 2), 300 pixels apart; elsewhere on the map; and off
\* the map on every side
LosSpots ==
  {at \in {<<820, 120>>, <<1120, 120>>, <<240, 100>>, <<240, 400>>, <<0, 0>>,
           <<600, 480>>, <<1200, 600>>, <<120, 240>>, <<880, 360>>, <<520, 0>>,
           <<820, 0>>} : ~HitsBush(CallMaze, at[1], at[2])}
  \cup {<<-200, 120>>, <<1400, 120>>, <<240, -200>>, <<240, 800>>}

HasLineOfSightCalls ==
  [fn : {"hasLineOfSight"}, m : {CallMaze}, a : LosSpots, b : LosSpots]

\* updateNPCs 1366 calling hasLineOfSight
CallHasLineOfSight ==
  /\ call.fn = "hasLineOfSight" /\ ~ret.done
  /\ ret' = Returned(hasLineOfSight(call.m, call.a[1], call.a[2], call.b[1], call.b[2]))
  /\ UNCHANGED <<call, wallMatrix, sceneVars, generatorVars, loopVars>>

\* an NPC that is wandering towards a target and has no reason to pick a new
\* one at the time WanderTime
WanderTime == 1000

Wandering(type, at, target) ==
  [NewNpc(type, at[1], at[2]) EXCEPT
     !.wanderTarget = [x |-> target[1], y |-> target[2]],
     !.nextWanderTime = WanderTime + COOLDOWN_BASE]

\* One NPC and the player on the generated maze: a dog chasing along a row
\* and along a 4-3-5 diagonal; a dog out of range, wandering along a row; a
\* chick fleeing along a row and up a column; a chick behind the bush of
\* column 8, wandering down a column; a dog in sight of the player at the
\* chase range exactly and beyond it; a dog within the range behind the bush
\* of column 8; a chick in sight of the player two ranges away.
UpdateNpcScenes ==
  { [npc |-> Wandering("dog", <<600, 480>>, <<840, 480>>), p |-> <<900, 480>>],
    [npc |-> Wandering("dog", <<600, 480>>, <<600, 240>>), p |-> <<920, 480>>],
    [npc |-> Wandering("dog", <<1080, 120>>, <<1080, 480>>), p |-> <<840, 120>>],
    [npc |-> Wandering("chick", <<600, 480>>, <<600, 240>>), p |-> <<0, 480>>],
    [npc |-> Wandering("dog", <<600, 480>>, <<600, 480>>), p |-> <<800, 480>>],
    [npc |-> Wandering("dog", <<600, 480>>, <<600, 480>>), p |-> <<720, 390>>],
    [npc |-> Wandering("dog", <<600, 480>>, <<840, 480>>), p |-> <<0, 0>>],
    [npc |-> Wandering("chick", <<600, 480>>, <<600, 480>>), p |-> <<400, 480>>],
    [npc |-> Wandering("chick", <<600, 360>>, <<600, 360>>), p |-> <<600, 540>>],
    [npc |-> Wandering("chick", <<1080, 120>>, <<1080, 360>>), p |-> <<820, 120>>] }

UpdateNpcCalls ==
  {[fn |-> "updateNPCs", m |-> CallMaze, npc |-> sc.npc, p |-> PlayerAt(sc.p),
    t |-> WanderTime, lv |-> lv, rnd |-> rnd] :
     sc \in UpdateNpcScenes, lv \in 1 .. MaxCallLevel, rnd \in TickRandoms}

\* update 1139 calling updateNPCs, with one NPC on the map
CallUpdateNPCs ==
  /\ call.fn = "updateNPCs" /\ ~ret.done
  /\ ret' = Returned(updateNPCs(call.m, <<call.npc>>, call.p, call.t, call.lv, call.rnd)[1])
  /\ UNCHANGED <<call, wallMatrix, sceneVars, generatorVars, loopVars>>

\* The NPCs wanderNpc is called on, all with the wander target (600, 480):
\* on the target, 20px from it, a little less than 20px from it, far from
\* it; with the cooldown timestamp passed, reached exactly and ahead; with a
\* stuck counter of 0, 15 and 16
WanderNpcs ==
  {[NewNpc(type, at[1], at[2]) EXCEPT
      !.wanderTarget = [x |-> 600, y |-> 480],
      !.nextWanderTime = next,
      !.stuckTime = stuck] :
     type \in {"dog", "chick"},
     at \in {<<600, 480>>, <<588, 464>>, <<588, 465>>, <<360, 480>>},
     next \in {WanderTime - 1, WanderTime, WanderTime + COOLDOWN_BASE},
     stuck \in {0, STUCK_REPICK, STUCK_REPICK + 1}}

\* The random input of a re-pick: 21 cells so that an attempt too many would
\* show (an open cell at once; a bush, a bush, an open cell; 20 times a bush
\* and then an open cell), and the two ends of the cooldown's random part
WanderRandoms ==
  [wander : { Rep(<<0, 0>>, WANDER_ATTEMPTS + 1),
              Draws(<<<<8, 1>>, <<3, 2>>>>, <<9, 5>>, WANDER_ATTEMPTS + 1),
              Draws(Rep(<<8, 1>>, WANDER_ATTEMPTS), <<0, 0>>, WANDER_ATTEMPTS + 1) },
   cooldown : {0, 999}]

WanderNpcCalls ==
  [fn : {"wanderNpc"}, m : {CallMaze}, npc : WanderNpcs, t : {WanderTime},
   rnd : WanderRandoms]

\* updateNPCs 1377, 1385 calling wanderNpc at level 1
CallWanderNpc ==
  /\ call.fn = "wanderNpc" /\ ~ret.done
  /\ ret' = Returned(wanderNpc(call.m, call.npc, call.t,
                               IF call.npc.type = "chick" THEN CHICK_SPEED_WANDER
                                                          ELSE DOG_SPEED_WANDER,
                               1, call.rnd))
  /\ UNCHANGED <<call, wallMatrix, sceneVars, generatorVars, loopVars>>

GetSpeedMultiplierCalls == [fn : {"getSpeedMultiplier"}, lv : 1 .. MaxCallLevel]

\* updateNPCs 1361 calling getSpeedMultiplier: the multiplier as a fraction
CallGetSpeedMultiplier ==
  /\ call.fn = "getSpeedMultiplier" /\ ~ret.done
  /\ ret' = Returned([num |-> SpeedMultNum(call.lv), den |-> SpeedMultDen(call.lv)])
  /\ UNCHANGED <<call, wallMatrix, sceneVars, generatorVars, loopVars>>

\* the calls the model follows
\* The chicks moveNpcAway is called on, none of them on a bush of the
\* generated maze: touching the left side and the top of the pair's bushes,
\* diagonally off the corner of one, touching the segment of column 8, in
\* the corners of the map and on its left edge; with a stuck counter that
\* adds no jitter and one that does
FleeNpcs ==
  {[NewNpc("chick", at[1], at[2]) EXCEPT !.stuckTime = stuck] :
     at \in {<<160, 240>>, <<240, 160>>, <<158, 158>>, <<880, 130>>,
             <<1198, 598>>, <<2, 2>>, <<10, 300>>},
     stuck \in {0, STUCK_JITTER + 1}}

\* where the player is while the chick flees
FleeFrom == {<<0, 0>>, <<1200, 600>>, <<600, 300>>, <<0, 240>>, <<240, 0>>}

\* the two Math.random() values of the jitter, in tenths
FleeJitters == {0, 5, 9}

MoveNpcAwayCalls ==
  [fn : {"moveNpcAway"}, m : {CallMaze}, npc : FleeNpcs, p : FleeFrom,
   lv : 1 .. MaxCallLevel, jx : FleeJitters, jy : FleeJitters]

\* updateNPCs 1374 calling moveNpcAway
CallMoveNpcAway ==
  /\ call.fn = "moveNpcAway" /\ ~ret.done
  /\ ret' = Returned(moveNpcAway(call.m, call.npc, call.p[1], call.p[2],
                                 CHICK_SPEED_FLEE, call.lv,
                                 [jx |-> call.jx, jy |-> call.jy]))
  /\ UNCHANGED <<call, wallMatrix, sceneVars, generatorVars, loopVars>>

AllCalls ==
  MovePlayerCalls \cup GetTileIndexCalls \cup HitboxesOverlapCalls
    \cup IsWallCalls \cup CollisionCalls \cup HasLineOfSightCalls
    \cup UpdateNpcCalls \cup GetSpeedMultiplierCalls \cup InitPlayerCalls
    \cup InitNpcsCalls \cup FollowCameraCalls \cup WanderNpcCalls
    \cup MoveNpcAwayCalls

InitCalls ==
  /\ SceneInit
  /\ GameInit
  /\ cookie = NoCookie
  /\ genPhase = "idle"
  /\ placedCount = 0
  /\ attempts = 0
  /\ segments = {}
  /\ call \in AllCalls
  /\ ret = NoReturn

NextCalls ==
  \/ CallMovePlayer
  \/ CallGetTileIndex
  \/ CallHitboxesOverlap
  \/ CallIsWall
  \/ CallCollidesWithWall
  \/ CallNpcCollidesWithWall
  \/ CallHasLineOfSight
  \/ CallUpdateNPCs
  \/ CallGetSpeedMultiplier
  \/ CallInitPlayer
  \/ CallInitNPCs
  \/ CallFollowCamera
  \/ CallWanderNpc
  \/ CallMoveNpcAway

SpecCalls == InitCalls /\ [][NextCalls]_vars

(***************************************************************************)
(* Game: start and the frame loop (part_001 32-50).                        *)
(***************************************************************************)
\* the values performance.now() and the frame callbacks' timestamps take, in
\* ms: 40.4, 61.8, 73.8, 107.1, 140.4, 161.8, 173.8, 211.8, 240.4, 261.8
FrameTimestamps ==
  {<<10590617, 322122547>>, <<16200499, 107374182>>, <<19346227, 107374182>>,
   <<28075622, 214748364>>, <<36805017, 322122548>>, <<42414899, 107374184>>,
   <<45560627, 107374184>>, <<55522099, 107374184>>, <<63019417, 322122548>>,
   <<68629299, 107374184>>}

RECURSIVE Drain(_, _)
\* loop 42-47: the while loop, from the accumulator acc with n updates done
Drain(acc, n) ==
  IF DoubleGeq(acc, FRAME_TIME_DOUBLE)
  THEN Drain(DoubleSub(acc, FRAME_TIME_DOUBLE), n + 1)
  ELSE [accumulator |-> acc, updates |-> n]

\* loop 38-47 called with the timestamp t when lastTime is last and the
\* accumulator acc
LoopBody(last, acc, t) == Drain(DoubleAdd(acc, DoubleSub(t, last)), 0)

\* the scene shows its title screen: update returns at 1084-1091 and changes
\* nothing
TitleShown == ~gameStarted

\* Game.start, after setScene: lastTime = performance.now(), then loop(lastTime)
start ==
  /\ loopPhase = "constructed"
  /\ sceneState # "new"
  /\ TitleShown
  /\ \E t \in FrameTimestamps :
       LET body == LoopBody(t, accumulator, t)
       IN /\ lastTime' = t
          /\ startTime' = t
          /\ accumulator' = body.accumulator
          /\ updateCalls' = updateCalls + body.updates
          /\ deltaTimes' = deltaTimes \cup
               (IF body.updates > 0 THEN {FRAME_TIME_DOUBLE} ELSE {})
  /\ loopPhase' = "running"
  /\ UNCHANGED <<wallMatrix, sceneVars, generatorVars, callVars>>

\* the frame callback: loop(t) with a timestamp not before the last one
loop(t) ==
  /\ loopPhase = "running"
  /\ TitleShown
  /\ DoubleGeq(t, lastTime)
  /\ LET body == LoopBody(lastTime, accumulator, t)
     IN /\ lastTime' = t
        /\ accumulator' = body.accumulator
        /\ updateCalls' = updateCalls + body.updates
        /\ deltaTimes' = deltaTimes \cup
             (IF body.updates > 0 THEN {FRAME_TIME_DOUBLE} ELSE {})
  /\ UNCHANGED <<loopPhase, startTime, wallMatrix, sceneVars, generatorVars, callVars>>

InitLoop == Init /\ cookie = NoCookie

NextLoop ==
  \/ Create
  \/ start
  \/ \E t \in FrameTimestamps : loop(t)

SpecLoop == InitLoop /\ [][NextLoop]_vars

\* The start of a session: setScene (create, not awaited by the loop), start
\* and the frames on the title screen, the end of loadAssets, and the inputs
\* that start the game.
NextStartUp ==
  \/ NextLoop
  \/ AssetsLoaded
  \/ AssetsFailed
  \/ \E k \in KeyNames : KeyDown(k)
  \/ \E pt \in ScreenPoints : MouseDown(pt)

SpecStartUp == InitLoop /\ [][NextStartUp]_vars

(***************************************************************************)
(* Properties of the methods.                                              *)
(***************************************************************************)
\* the NPCs of a list that are not chicks
WithoutChicks(ns) == SelectSeq(ns, LAMBDA n : n.type # "chick")

\* a bush or a live dog stands at the sprite position (x, y)
BushOrDogAt(m, ns, x, y) ==
  \/ HitsBush(m, x, y)
  \/ \E i \in 1 .. Len(ns) :
       ns[i].type = "dog" /\ ~ns[i].dead /\ hitboxesOverlap(x, y, ns[i].x, ns[i].y)

\* a live chick of the list overlaps the sprite position (x, y)
LiveChickAt(ns, x, y) ==
  \E i \in 1 .. Len(ns) :
    ns[i].type = "chick" /\ ~ns[i].dead /\ hitboxesOverlap(x, y, ns[i].x, ns[i].y)

\* C11: the position a tick resolves for the player is the one it resolves
\* with every chick, live or dead, taken out of the NPC list; and an
\* attempted position that no bush and no live dog stands at, on either axis
\* step, is the position the player gets (clamped to the map)
QuarryNeverBlock ==
  call.fn = "movePlayer" /\ ret.done =>
    LET new == CallAttempt(call)
    IN /\ ret.value = MovePlayer(call.m, WithoutChicks(call.ns), call.p, new)
       /\ (/\ ~BushOrDogAt(call.m, call.ns, new[1], call.p.y)
           /\ ~BushOrDogAt(call.m, call.ns, new[1], new[2]))
          => ret.value = ClampPlayer([call.p EXCEPT !.x = new[1], !.y = new[2]])

\* C11 witness: the player moved onto a live chick while a dog is on the map
MovedOntoQuarry ==
  /\ call.fn = "movePlayer" /\ ret.done
  /\ \E i \in 1 .. Len(call.ns) : call.ns[i].type = "dog"
  /\ ret.value.x = call.p.x + PLAYER_SPEED
  /\ LiveChickAt(call.ns, ret.value.x, ret.value.y)
  /\ ~LiveChickAt(call.ns, call.p.x, call.p.y)

(***************************************************************************)
(* Properties of the maze generator.                                       *)
(***************************************************************************)
GridCells == Rows \X Cols

\* the blocked cells of a grid
Blocked(m) == {c \in GridCells : m[c[1]][c[2]]}

\* the cell itself and its in-grid 4-neighbours
Around(c) ==
  {n \in GridCells : Abs(n[1] - c[1]) + Abs(n[2] - c[2]) <= 1}

\* the plus shape: row 2, columns 2 to 4 and column 3, rows 1 to 3
PlusCells == {<<2, 2>>, <<2, 3>>, <<2, 4>>, <<1, 3>>, <<3, 3>>}

\* C12: an accepted segment and the cells around it were open when it was
\* accepted; so no cell of a detached segment is a cell of, or next to a cell
\* of, another detached segment or the intersecting pair, and the blocked
\* cells are those of the pair and of the accepted segments
SegmentsApart ==
  /\ [](genPhase # "idle" =>
          /\ Blocked(wallMatrix) = PlusCells \cup UNION segments
          /\ \A sg \in segments : \A c \in sg :
               Around(c) \cap (PlusCells \cup UNION (segments \ {sg})) = {})
  /\ [][placedCount' = placedCount + 1 =>
          LET new == Blocked(wallMatrix') \ Blocked(wallMatrix)
          IN /\ new # {}
             /\ \A c \in new : Around(c) \cap Blocked(wallMatrix) = {}]_vars

\* C12 witness: six segments were accepted, after attempts that were refused
SixSegmentsApart ==
  genPhase = "done" /\ Cardinality(segments) = NUM_DETACHED_WALLS /\ attempts > placedCount

\* C13: an attempt is made only below 6 placed segments and below 200
\* attempts; the counters stay within 0..6 and 0..200; the loop is left with 6
\* placed or 200 attempts made; and a generation that has begun ends
GenerationTerminates ==
  /\ [](/\ attempts \in 0 .. MAX_PLACEMENT_ATTEMPTS
        /\ placedCount \in 0 .. NUM_DETACHED_WALLS
        /\ placedCount <= attempts
        /\ Cardinality(segments) = placedCount)
  /\ [](genPhase = "done" =>
          placedCount = NUM_DETACHED_WALLS \/ attempts = MAX_PLACEMENT_ATTEMPTS)
  /\ [][attempts' = attempts + 1 =>
          placedCount < NUM_DETACHED_WALLS /\ attempts < MAX_PLACEMENT_ATTEMPTS]_vars
  /\ (genPhase = "placing" ~> genPhase = "done")

\* C13 witness: the attempts ran out with fewer than 6 segments placed
AttemptsRanOut ==
  /\ genPhase = "done" /\ attempts = MAX_PLACEMENT_ATTEMPTS
  /\ placedCount > 0 /\ placedCount < NUM_DETACHED_WALLS

\* C14: from the moment generateMaze has placed it, in every call, the plus
\* shape is blocked
PairAlwaysThere ==
  /\ [](genPhase # "idle" => PlusCells \subseteq Blocked(wallMatrix))
  /\ [][genPhase' = "placing" /\ genPhase # "placing" =>
          Blocked(wallMatrix') = PlusCells]_vars

\* C14 witness: a finished maze with three detached segments and the plus shape
PairAmongSegments ==
  /\ genPhase = "done" /\ placedCount = 3
  /\ PlusCells \subseteq Blocked(wallMatrix)
  /\ Blocked(wallMatrix) # PlusCells

\* C15 as claimed: the pair has 7 cells, every maze at least 7 blocked cells
PairHasSevenCells ==
  genPhase # "idle" => Cardinality(Blocked(wallMatrix)) >= 7

\* C15 amended: the pair occupies exactly 5 cells (its two runs share the
\* middle cell), so every generated maze has at least 5 blocked cells, and
\* exactly 5 while no detached segment is placed
PairHasFiveCells ==
  genPhase # "idle" =>
    /\ Cardinality(Blocked(wallMatrix)) >= 5
    /\ placedCount = 0 => Cardinality(Blocked(wallMatrix)) = 5
    /\ Cardinality(Blocked(wallMatrix) \ UNION segments) = 5

\* C15 witness: a finished maze whose only blocked cells are the pair's
OnlyThePair ==
  /\ genPhase = "done" /\ placedCount = 0
  /\ Cardinality(Blocked(wallMatrix)) = 5

\* the cell is inside the grid and blocked
BlockedCell(m, row, col) ==
  <<row, col>> \in {c \in Rows \X Cols : m[c[1]][c[2]]}

\* C16: getTileIndex returns the variant the claim gives for the combination
\* of blocked neighbours, one of the 7 variants, and the call changes neither
\* the matrix nor any field of the scene
TileResolved ==
  /\ [](call.fn = "getTileIndex" /\ ret.done =>
          LET up == BlockedCell(call.m, call.row - 1, call.col)
              down == BlockedCell(call.m, call.row + 1, call.col)
              left == BlockedCell(call.m, call.row, call.col - 1)
              right == BlockedCell(call.m, call.row, call.col + 1)
              v == ret.value
          IN /\ v \in {BUSH_VERT_MIDDLE, BUSH_VERT_CAP_TOP, BUSH_HORIZ_MIDDLE,
                       BUSH_HORIZ_CAP_LEFT, BUSH_JOINER, BUSH_HORIZ_CAP_RIGHT,
                       BUSH_VERT_CAP_BOTTOM}
             /\ (up \/ down) /\ (left \/ right) => v = BUSH_JOINER
             /\ up /\ down /\ ~left /\ ~right => v = BUSH_VERT_MIDDLE
             /\ ~up /\ down /\ ~left /\ ~right => v = BUSH_VERT_CAP_TOP
             /\ up /\ ~down /\ ~left /\ ~right => v = BUSH_VERT_CAP_BOTTOM
             /\ ~up /\ ~down /\ left /\ right => v = BUSH_HORIZ_MIDDLE
             /\ ~up /\ ~down /\ ~left /\ right => v = BUSH_HORIZ_CAP_LEFT
             /\ ~up /\ ~down /\ left /\ ~right => v = BUSH_HORIZ_CAP_RIGHT
             /\ ~up /\ ~down /\ ~left /\ ~right => v = BUSH_JOINER)
  /\ [][call.fn = "getTileIndex" => UNCHANGED <<call, wallMatrix, sceneVars>>]_vars

\* C16 witness: an interior cell with a blocked neighbour below only got the
\* top cap
TopCapResolved ==
  /\ call.fn = "getTileIndex" /\ ret.done
  /\ call.row = 2 /\ call.col = 5
  /\ BlockedCell(call.m, 3, 5) /\ ~BlockedCell(call.m, 1, 5)
  /\ ~BlockedCell(call.m, 2, 4) /\ ~BlockedCell(call.m, 2, 6)
  /\ ret.value = BUSH_VERT_CAP_TOP

HitboxOnBush(m, x, y) ==
  \E c \in Blocked(m) :
    Abs(x - c[2] * TILE_SIZE) < HITBOX_SIZE /\ Abs(y - c[1] * TILE_SIZE) < HITBOX_SIZE

\* the number of steps of a line of squared length d2: max(1, floor(d / 20))
LosSteps(d2) ==
  CHOOSE st \in 1 .. 100 :
    IF d2 < 1600 THEN st = 1
    ELSE 400 * st * st <= d2 /\ d2 < 400 * (st + 1) * (st + 1)

\* sample i of st, from centre to centre, falls in the cell c
SampleIn(c, a, b, i, st) ==
  LET px == (a[1] + 60) * st + (b[1] - a[1]) * i
      py == (a[2] + 60) * st + (b[2] - a[2]) * i
  IN /\ 120 * c[2] * st <= px /\ px < 120 * (c[2] + 1) * st
     /\ 120 * c[1] * st <= py /\ py < 120 * (c[1] + 1) * st

\* no sample of the line from a to b falls in a blocked cell of the grid
SamplesOpen(m, a, b) ==
  LET st == LosSteps((b[1] - a[1]) * (b[1] - a[1]) + (b[2] - a[2]) * (b[2] - a[2]))
  IN \A i \in 0 .. st : \A c \in Blocked(m) : ~SampleIn(c, a, b, i, st)

\* the coordinates of the call lie outside the grid
OutOfGrid(row, col) == row < 0 \/ row >= 6 \/ col < 0 \/ col >= 11

\* C18: isWall returns false outside the 6 x 11 grid and the cell's value
\* inside; collidesWithWall, npcCollidesWithWall and hasLineOfSight return the
\* result that the blocked cells inside the grid give, for positions on and off
\* the map
GridQueriesTotal ==
  /\ call.fn = "isWall" /\ ret.done =>
       /\ OutOfGrid(call.row, call.col) => ret.value = FALSE
       /\ ret.value = BlockedCell(call.m, call.row, call.col)
  /\ call.fn \in {"collidesWithWall", "npcCollidesWithWall"} /\ ret.done =>
       ret.value = HitboxOnBush(call.m, call.x, call.y)
  /\ call.fn = "hasLineOfSight" /\ ret.done =>
       ret.value = SamplesOpen(call.m, call.a, call.b)

\* C18 witness: isWall was asked about a cell of the row under the grid and
\* answered false
BelowTheGrid ==
  /\ call.fn = "isWall" /\ ret.done
  /\ call.row = GRID_ROWS /\ call.col = 3
  /\ ret.value = FALSE

\* the blocked cell c lies between the centres of a and b, which are in one
\* row (or one column) of the grid
CellBetween(c, a, b) ==
  LET ca == <<a[1] + 60, a[2] + 60>>
      cb == <<b[1] + 60, b[2] + 60>>
  IN \/ /\ ca[2] = cb[2]
        /\ 120 * c[1] <= ca[2] /\ ca[2] < 120 * (c[1] + 1)
        /\ Min(ca[1], cb[1]) < 120 * (c[2] + 1) /\ 120 * c[2] <= Max(ca[1], cb[1])
     \/ /\ ca[1] = cb[1]
        /\ 120 * c[2] <= ca[1] /\ ca[1] < 120 * (c[2] + 1)
        /\ Min(ca[2], cb[2]) < 120 * (c[1] + 1) /\ 120 * c[1] <= Max(ca[2], cb[2])

\* a and b are 300 pixels apart in one row or one column
Aligned300(a, b) ==
  \/ a[2] = b[2] /\ Abs(a[1] - b[1]) = 300
  \/ a[1] = b[1] /\ Abs(a[2] - b[2]) = 300

\* C20: hasLineOfSight is true exactly when no sample of the line from centre
\* to centre (max(1, floor(distance / 20)) steps, both ends included) falls in
\* a blocked cell, and is false for two agents 300 pixels apart in a row or a
\* column with a blocked cell between their centres
SightBlockedByWall ==
  call.fn = "hasLineOfSight" /\ ret.done =>
    /\ ret.value = SamplesOpen(call.m, call.a, call.b)
    /\ (/\ Aligned300(call.a, call.b)
        /\ \E c \in Blocked(call.m) : CellBetween(c, call.a, call.b))
       => ret.value = FALSE

\* C20 witness: the bush of column 8 hides two agents of row 1, 300 pixels
\* apart, neither of them on a blocked cell, from each other
HiddenBehindBush ==
  /\ call.fn = "hasLineOfSight" /\ ret.done
  /\ call.a = <<820, 120>> /\ call.b = <<1120, 120>>
  /\ SamplesOpen(call.m, call.a, call.a) /\ SamplesOpen(call.m, call.b, call.b)
  /\ ret.value = FALSE

\* the base speed the claim gives an NPC: quarry wander 2, quarry flee 5,
\* pursuer wander 3, pursuer chase 5
ClaimedBase(m, npc, p) ==
  LET sees == SamplesOpen(m, <<npc.x, npc.y>>, <<p.x, p.y>>)
      near == (p.x - npc.x) * (p.x - npc.x) + (p.y - npc.y) * (p.y - npc.y) < 300 * 300
  IN IF npc.type = "chick" THEN (IF sees THEN 5 ELSE 2)
     ELSE (IF sees /\ near THEN 5 ELSE 3)

RECURSIVE Times(_, _)
\* k * a as a real number
Times(k, a) == IF k <= 0 THEN DoubleZero ELSE ExactAdd(Times(k - 1, a), a)

\* k = floor(a / FRAME_TIME)
IsFloorOfFrames(k, a) ==
  /\ DoubleGeq(a, Times(k, FRAME_TIME_DOUBLE))
  /\ ~DoubleGeq(a, Times(k + 1, FRAME_TIME_DOUBLE))

\* C21: after each loop call the accumulator lies in [0, FRAME_TIME), every
\* update was called with deltaTime = FRAME_TIME, and the number of updates so
\* far is floor((time elapsed since start) / FRAME_TIME), however the time was
\* split into frames
FixedTimestep ==
  loopPhase = "running" =>
    /\ DoubleGeq(accumulator, DoubleZero)
    /\ ~DoubleGeq(accumulator, FRAME_TIME_DOUBLE)
    /\ deltaTimes \subseteq {FRAME_TIME_DOUBLE}
    /\ IsFloorOfFrames(updateCalls, ExactSub(lastTime, startTime))

\* C22: once loading an asset has failed, create() has rejected before the
\* maze was generated and before an input handler was registered: no maze, no
\* agents, no input taken, the game not started, and nothing changes any more
AssetFailureIsFatal ==
  /\ [](sceneState = "failed" =>
          /\ wallMatrix = << >> /\ npcs = << >>
          /\ keys = {} /\ ~isMouseDown /\ mouseTarget = NoTarget
          /\ ~gameStarted /\ score = 0 /\ now = 0)
  /\ [][sceneState = "failed" =>
          UNCHANGED <<sceneState, wallMatrix, player, npcs, score, highScore,
                      level, gameStarted, gameOver, levelComplete>>]_vars

\* C22 witness: create() read the cookie and then rejected
CreateRejected == sceneState = "failed" /\ cookieReads = 1 /\ highScore = 1

\* a step of restartGame or of nextLevel
RecreatingStep == restarts' # restarts \/ advances' # advances

\* C23: a dog is never dead; in a step that is neither restartGame nor
\* nextLevel a dead NPC stays in the list, dead and where it is, and score
\* grows by the number of NPCs the step marks dead (a chick is counted when it
\* dies and never again); restartGame and nextLevel replace the list by a
\* generated one, all alive
DeadIsForGood ==
  /\ [](\A i \in 1 .. Len(npcs) : npcs[i].type = "dog" => ~npcs[i].dead)
  /\ [][ ~RecreatingStep =>
           /\ \A i \in 1 .. Len(npcs) :
                npcs[i].dead => /\ i <= Len(npcs')
                                /\ npcs'[i].dead
                                /\ npcs'[i].type = npcs[i].type
                                /\ npcs'[i].x = npcs[i].x
                                /\ npcs'[i].y = npcs[i].y
           /\ score' = score + Cardinality({i \in 1 .. Len(npcs) :
                                              ~npcs[i].dead /\ npcs'[i].dead}) ]_vars
  /\ [][ RecreatingStep =>
           Regenerated /\ \A i \in 1 .. Len(npcs') : ~npcs'[i].dead ]_vars

\* C23 witness: play goes on after 15 ticks, all of them moving the player
\* down, with a chick that fled for 14 ticks and was caught in the 14th
PlayedOnPastDeadChick ==
  /\ InPlaying /\ LiveChicks(npcs) # {}
  /\ now = 15 * FRAME_TIME
  /\ player.x = 0 /\ player.y = 15 * PLAYER_SPEED
  /\ \E i \in 1 .. Len(npcs) :
       /\ npcs[i].dead
       /\ npcs[i].x = 0 /\ npcs[i].y = TILE_SIZE + 14 * CHICK_SPEED_FLEE

\* C24: the player spawns clear of every blocked cell's hitbox; a tick's move
\* from a position clear of them ends clear of them; and when one axis of the
\* attempted move is blocked and the other is not, the player keeps its place
\* on the blocked axis and takes the attempted place (clamped) on the other
PlayerNeverInWall ==
  /\ call.fn = "initPlayer" /\ ret.done =>
       ~HitboxOnBush(call.m, ret.value.x, ret.value.y)
  /\ call.fn = "movePlayer" /\ ret.done =>
       LET new == CallAttempt(call)
           xBlocked == collidesWithWall(call.m, call.ns, new[1], call.p.y)
       IN /\ ~HitboxOnBush(call.m, call.p.x, call.p.y)
          /\ ~HitboxOnBush(call.m, ret.value.x, ret.value.y)
          /\ xBlocked /\ ~collidesWithWall(call.m, call.ns, call.p.x, new[2])
               => ret.value = ClampPlayer([call.p EXCEPT !.y = new[2]])
          /\ ~xBlocked /\ collidesWithWall(call.m, call.ns, new[1], new[2])
               => ret.value = ClampPlayer([call.p EXCEPT !.x = new[1]])

\* C24 witness: corner to corner with a bush and moving diagonally toward it,
\* the player took the X step and not the Y step, which the bush blocks then
SlidAlongBush ==
  /\ call.fn = "movePlayer" /\ ret.done
  /\ call.ns = << >>
  /\ HitboxOnBush(call.m, CallAttempt(call)[1], CallAttempt(call)[2])
  /\ ret.value.x = call.p.x + PLAYER_SPEED /\ ret.value.y = call.p.y

\* C25: a live pursuer whose hitbox the player's hitbox does not overlap when
\* the tick starts is not overlapped by it either once the player's move of
\* the tick is resolved and clamped, wherever the player stands
PursuerBlocksPlayer ==
  call.fn = "movePlayer" /\ ret.done =>
    \A i \in 1 .. Len(call.ns) :
      /\ call.ns[i].type = "dog" /\ ~call.ns[i].dead
      /\ ~hitboxesOverlap(call.p.x, call.p.y, call.ns[i].x, call.ns[i].y)
      => ~hitboxesOverlap(ret.value.x, ret.value.y, call.ns[i].x, call.ns[i].y)

\* the step the claim gives an NPC: a quarry flees when it sees the player
\* and wanders otherwise; a pursuer chases when it sees the player less than
\* 300px away and wanders otherwise
ClaimedStep(m, npc, p) ==
  LET sees == SamplesOpen(m, <<npc.x, npc.y>>, <<p.x, p.y>>)
      near == (p.x - npc.x) * (p.x - npc.x) + (p.y - npc.y) * (p.y - npc.y) < 300 * 300
  IN IF npc.type = "chick" THEN (IF sees THEN "flee" ELSE "wander")
     ELSE (IF sees /\ near THEN "chase" ELSE "wander")

\* the NPC of an updateNPCs call after a step of a kind
StepOfKind(kind, c) ==
  CASE kind = "chase" ->
         moveNpcToward(c.m, c.npc, c.p.x, c.p.y, DOG_SPEED_CHASE, c.lv)
    [] kind = "flee" ->
         moveNpcAway(c.m, c.npc, c.p.x, c.p.y, CHICK_SPEED_FLEE, c.lv, c.rnd.chick)
    [] kind = "wander" ->
         wanderNpc(c.m, c.npc, c.t,
                   IF c.npc.type = "chick" THEN CHICK_SPEED_WANDER ELSE DOG_SPEED_WANDER,
                   c.lv, c.rnd[c.npc.type])

\* C26: the tick of a live NPC is the step the claim gives it: the NPC ends
\* where that step puts it (kept inside the map), with the wander target and
\* the wander deadline that step leaves
StepFollowsSightAndRange ==
  call.fn = "updateNPCs" /\ ret.done /\ ~call.npc.dead =>
    LET step == StepOfKind(ClaimedStep(call.m, call.npc, call.p), call)
    IN /\ ret.value.x = Max(0, Min(step.x, MAP_WIDTH - NPC_SIZE))
       /\ ret.value.y = Max(0, Min(step.y, MAP_HEIGHT - NPC_SIZE))
       /\ ret.value.wanderTarget = step.wanderTarget
       /\ ret.value.nextWanderTime = step.nextWanderTime

\* C26 witness: a dog that sees the player exactly 300px away along its row
\* went 3px towards its wander target, not 5px
WanderedAtChaseRange ==
  /\ call.fn = "updateNPCs" /\ ret.done
  /\ call.npc.type = "dog" /\ call.lv = 1
  /\ SamplesOpen(call.m, <<call.npc.x, call.npc.y>>, <<call.p.x, call.p.y>>)
  /\ call.p.x - call.npc.x = DOG_CHASE_RANGE /\ call.p.y = call.npc.y
  /\ ret.value.x = call.npc.x + DOG_SPEED_WANDER /\ ret.value.y = call.npc.y

\* s is the whole pixels of the component along d of a step of length 8 in
\* the direction of a vector of squared length d2
WholePixelsOfStep(s, d, d2) ==
  /\ s * d >= 0
  /\ s * s * d2 <= 8 * 8 * d * d
  /\ 8 * 8 * d * d < (Abs(s) + 1) * (Abs(s) + 1) * d2

\* the number of the two keys held: 1 for the first, -1 for the second, 0 for
\* both and for neither
KeyAxis(ks, plus, minus) ==
  (IF plus \in ks THEN 1 ELSE 0) - (IF minus \in ks THEN 1 ELSE 0)

\* C27: with the pointer down on a target more than 10px from the player's
\* centre the move resolved in the tick is that of one step of length 8
\* toward the target (its whole pixels on each axis), whatever keys are
\* held; otherwise it is that of 8px per held arrow key, opposite keys
\* cancelling
PointerBeforeKeys ==
  call.fn = "movePlayer" /\ ret.done =>
    LET dx == call.pointer.target[1] - (call.p.x + 60)
        dy == call.pointer.target[2] - (call.p.y + 60)
        byPointer == /\ call.pointer.down /\ call.pointer.target # NoTarget
                     /\ dx * dx + dy * dy > 10 * 10
    IN IF byPointer
       THEN \E sx, sy \in -8 .. 8 :
              /\ WholePixelsOfStep(sx, dx, dx * dx + dy * dy)
              /\ WholePixelsOfStep(sy, dy, dx * dx + dy * dy)
              /\ ret.value = MovePlayer(call.m, call.ns, call.p,
                                        <<call.p.x + sx, call.p.y + sy>>)
       ELSE ret.value =
              MovePlayer(call.m, call.ns, call.p,
                         <<call.p.x + 8 * KeyAxis(call.keys, "ArrowRight", "ArrowLeft"),
                           call.p.y + 8 * KeyAxis(call.keys, "ArrowDown", "ArrowUp")>>)

\* C27 witness: on open grass, with the pointer held far to the left and the
\* right and down keys held, the player went 8px left and stayed on its row
WentToPointerAgainstKeys ==
  /\ call.fn = "movePlayer" /\ ret.done
  /\ call.ns = << >>
  /\ call.keys = {"ArrowRight", "ArrowDown"}
  /\ call.pointer.down
  /\ call.pointer.target = <<call.p.x + 60 - 400, call.p.y + 60>>
  /\ ret.value.x = call.p.x - 8 /\ ret.value.y = call.p.y

\* the cell, as <<col, row>>, of a sprite standing at a tile origin
CellOf(s) == <<s.x \div TILE_SIZE, s.y \div TILE_SIZE>>

\* the first cell of the draws that is an open cell of the grid outside occ
FirstFreeCell(m, occ, draws) ==
  LET ok == {a \in 1 .. SPAWN_ATTEMPTS :
               /\ draws[a][1] \in Cols /\ draws[a][2] \in Rows
               /\ ~WallAt(m, draws[a][2], draws[a][1])
               /\ draws[a] \notin occ}
  IN IF ok = {} THEN << >> ELSE <<draws[Least(ok)]>>

RECURSIVE ClaimedPlaces(_, _, _, _)
\* the types and cells of the NPCs the claim has created for the spawns from
\* number i on: each takes its first drawn open cell free of the player and
\* of the NPCs before it, and a spawn without one is left out
ClaimedPlaces(m, occ, spawns, i) ==
  IF i > Len(spawns) THEN << >>
  ELSE LET c == FirstFreeCell(m, occ, spawns[i].draws)
       IN IF c = << >> THEN ClaimedPlaces(m, occ, spawns, i + 1)
          ELSE <<[type |-> spawns[i].type, cell |-> c[1]]>>
                 \o ClaimedPlaces(m, occ \cup {c[1]}, spawns, i + 1)

\* C28: after a level's set-up every NPC is alive and stands at the origin
\* of an open cell of the grid (the dog in the columns of its side), no NPC's
\* hitbox overlaps the player's or that of an NPC created before it, the
\* player and the NPCs stand on pairwise distinct open cells, and the NPCs
\* are those of the spawns that had a successful attempt, in order
SpawnedApart ==
  call.fn = "initNPCs" /\ ret.done =>
    LET m == ret.value.wallMatrix
        p == ret.value.player
        ns == ret.value.npcs
        spawns == <<[type |-> "dog", draws |-> call.sp.dog]>>
                    \o [i \in 1 .. Len(call.sp.chicks) |->
                          [type |-> "chick", draws |-> call.sp.chicks[i]]]
    IN /\ p.x % TILE_SIZE = 0 /\ p.y % TILE_SIZE = 0
       /\ CellOf(p)[1] \in Cols /\ CellOf(p)[2] \in Rows
       /\ ~WallAt(m, CellOf(p)[2], CellOf(p)[1])
       /\ \A i \in 1 .. Len(ns) :
            /\ ~ns[i].dead
            /\ ns[i].x % TILE_SIZE = 0 /\ ns[i].y % TILE_SIZE = 0
            /\ CellOf(ns[i])[1] \in Cols /\ CellOf(ns[i])[2] \in Rows
            /\ ns[i].type = "dog" =>
                 CellOf(ns[i])[1] \in DogMinCol(call.sp.onLeft) .. DogMaxCol(call.sp.onLeft)
            /\ ~WallAt(m, CellOf(ns[i])[2], CellOf(ns[i])[1])
            /\ ~hitboxesOverlap(ns[i].x, ns[i].y, p.x, p.y)
            /\ CellOf(ns[i]) # CellOf(p)
            /\ \A j \in 1 .. (i - 1) :
                 /\ ~hitboxesOverlap(ns[i].x, ns[i].y, ns[j].x, ns[j].y)
                 /\ CellOf(ns[i]) # CellOf(ns[j])
       /\ [i \in 1 .. Len(ns) |-> [type |-> ns[i].type, cell |-> CellOf(ns[i])]]
            = ClaimedPlaces(m, {CellOf(p)}, spawns, 1)

\* C28 witness: a set-up of five chicks in which three never drew a free cell
\* (the player's, the dog's, an earlier chick's) made the dog and two chicks
ThreeChicksNotCreated ==
  /\ call.fn = "initNPCs" /\ ret.done
  /\ Len(call.sp.chicks) = 5
  /\ Len(ret.value.npcs) = 3
  /\ ret.value.npcs[1].type = "dog" /\ CellOf(ret.value.npcs[1]) = <<0, 1>>
  /\ CellOf(ret.value.npcs[2]) = <<4, 4>>
  /\ CellOf(ret.value.npcs[3]) = <<10, 5>>
  /\ CellOf(ret.value.player) = <<0, 0>>

\* C29: until create() has completed the game is not started and the player,
\* the NPCs, the score, the level and the phase flags are those of a new
\* scene; an update call made while the assets load changes none of them; and
\* the game is started only once create() has completed
NoStepBeforeCreated ==
  /\ [](sceneState # "ready" =>
          /\ ~gameStarted /\ ~gameOver /\ ~levelComplete
          /\ score = 0 /\ level = 1 /\ now = 0
          /\ npcs = << >> /\ wallMatrix = << >>
          /\ player = [x |-> 0, y |-> 0, width |-> 0, height |-> 0])
  /\ [][sceneState = "loading" /\ updateCalls' # updateCalls =>
          UNCHANGED <<player, npcs, score, level, gameStarted, gameOver,
                      levelComplete, wallMatrix, sceneState>>]_vars
  /\ [][gameStarted' /\ ~gameStarted => sceneState = "ready"]_vars

\* C29 witness: the loop has called update three times and the assets are
\* still loading
UpdatedWhileLoading ==
  /\ sceneState = "loading"
  /\ loopPhase = "running" /\ updateCalls = 3
  /\ ~gameStarted /\ npcs = << >>

\* the cells of the grid m that are blocked
BlockedCells(m) == {cell \in Rows \X Cols : WallAt(m, cell[1], cell[2])}

\* the candidate segments placeDetachedWall can draw
CandidateSegments == {SegmentCells(d) : d \in DetachedDraws}

\* C30: an attempt of placeDetachedWall unblocks no cell, and either returns
\* true (the loop counts it) having blocked the cells of one candidate
\* segment, all of them open before, and no other cell, or returns false
\* leaving the grid as it was
PlacementAtomic ==
  [][genPhase = "placing" /\ attempts' # attempts =>
       LET new == BlockedCells(wallMatrix') \ BlockedCells(wallMatrix)
       IN /\ BlockedCells(wallMatrix) \subseteq BlockedCells(wallMatrix')
          /\ \/ /\ placedCount' = placedCount + 1
                /\ new \in CandidateSegments
                /\ segments' = segments \cup {new}
             \/ /\ placedCount' = placedCount
                /\ wallMatrix' = wallMatrix
                /\ segments' = segments]_vars

\* C30 witness: of three attempts two were committed and one discarded, and
\* the grid is the intersecting pair and the two segments
TwoPlacedOneDiscarded ==
  /\ genPhase = "placing"
  /\ attempts = 3 /\ placedCount = 2
  /\ \E s1, s2 \in segments :
       /\ s1 # s2
       /\ BlockedCells(wallMatrix)
            = BlockedCells(placeIntersectingPair(EmptyGrid)) \cup s1 \cup s2

\* the cells of the grid off its outer border
InteriorCells == (1 .. (GRID_ROWS - 2)) \X (1 .. (GRID_COLS - 2))

\* the set of cells is a run of 2 to 5 cells side by side in one row or in
\* one column
StraightRun(sg) ==
  /\ Cardinality(sg) \in 2 .. 5
  /\ \E c \in sg :
       \/ sg = {<<c[1], c[2] + k>> : k \in 0 .. (Cardinality(sg) - 1)}
       \/ sg = {<<c[1] + k, c[2]>> : k \in 0 .. (Cardinality(sg) - 1)}

\* the segments of the draws for which placeDetachedWall finds a start
PlaceableSegments ==
  {SegmentCells(d) :
     d \in {e \in DetachedDraws :
              (IF e.h THEN GRID_COLS - 1 - e.len ELSE GRID_ROWS - 1 - e.len) >= 1}}

\* C31: every blocked cell of a maze, while and after it is generated, lies
\* in rows 1 to 4 and columns 1 to 9, so the border cells are open; every
\* placed detached segment, and every segment a draw can propose, is a
\* straight run of 2 to 5 cells off the border
BushesOffBorder ==
  /\ genPhase # "idle" =>
       /\ Blocked(wallMatrix) \subseteq InteriorCells
       /\ \A cell \in (Rows \X Cols) \ InteriorCells : ~wallMatrix[cell[1]][cell[2]]
       /\ \A sg \in segments : StraightRun(sg) /\ sg \subseteq InteriorCells
  /\ \A sg \in PlaceableSegments : StraightRun(sg) /\ sg \subseteq InteriorCells

\* C31 witness: a finished maze with a segment of 5 cells along row 4 and a
\* segment that starts in row 1
LongSegmentBesideBorder ==
  /\ genPhase = "done"
  /\ {<<4, c>> : c \in 4 .. 8} \in segments
  /\ <<1, 6>> \in Blocked(wallMatrix)

\* C32: the camera offset update computes for a player inside the map is
\* within 0..894 horizontally and 0 vertically, is the offset that centres
\* the viewport on the player whenever that offset is within those bounds,
\* and leaves the whole width of the player's sprite inside the viewport
CameraFollowsPlayer ==
  call.fn = "followCamera" /\ ret.done =>
    LET centredX == call.p.x + 60 - 213
        centredY == call.p.y + 60 - 360
        cam == ret.value
    IN /\ 0 <= cam.cameraX /\ cam.cameraX <= 894
       /\ cam.cameraY = 0
       /\ centredX \in 0 .. 894 => cam.cameraX = centredX
       /\ centredY \in 0 .. 0 => cam.cameraY = centredY
       /\ cam.cameraX <= call.p.x
       /\ call.p.x + 120 <= cam.cameraX + 426

\* C32 witness: for the player at the right edge of the map the camera
\* stopped at 894, with the sprite's right side on the viewport's right side
CameraAtRightEdge ==
  /\ call.fn = "followCamera" /\ ret.done
  /\ call.p.x = MAP_WIDTH - PLAYER_FRAME_SIZE
  /\ ret.value.cameraX = 894
  /\ call.p.x + call.p.width = ret.value.cameraX + VIEWPORT_WIDTH

\* the origin of the first of the first 20 drawn cells that is an open cell
\* of the grid, if there is one
FirstOpenOrigin(m, draws) ==
  LET open == {a \in 1 .. 20 :
                 /\ draws[a][1] \in Cols /\ draws[a][2] \in Rows
                 /\ ~WallAt(m, draws[a][2], draws[a][1])}
  IN IF open = {} THEN << >>
     ELSE <<[x |-> draws[Least(open)][1] * TILE_SIZE,
             y |-> draws[Least(open)][2] * TILE_SIZE]>>

\* C33: a wandering NPC re-picks exactly when its target is less than 20px
\* away, the time is past its cooldown timestamp or its stuck counter is
\* above 15; a re-pick sets the stuck counter to 0, the cooldown timestamp
\* 1000 to 2000 ms ahead and the target to the first open cell among at
\* most 20 drawn ones, keeping the old target when there is none; without a
\* re-pick the three are kept
WanderRepicks ==
  call.fn = "wanderNpc" /\ ret.done =>
    LET npc == call.npc
        dx == npc.wanderTarget.x - npc.x
        dy == npc.wanderTarget.y - npc.y
        repick == \/ dx * dx + dy * dy < 20 * 20
                  \/ call.t > npc.nextWanderTime
                  \/ npc.stuckTime > 15
        found == FirstOpenOrigin(call.m, call.rnd.wander)
    IN IF repick
       THEN /\ ret.value.stuckTime = 0
            /\ ret.value.nextWanderTime \in (call.t + 1000) .. (call.t + 2000)
            /\ ret.value.wanderTarget =
                 IF found = << >> THEN npc.wanderTarget ELSE found[1]
       ELSE /\ ret.value.stuckTime = npc.stuckTime
            /\ ret.value.nextWanderTime = npc.nextWanderTime
            /\ ret.value.wanderTarget = npc.wanderTarget

\* C33 witness: an NPC far from its target, its cooldown not passed, re-picked
\* for its stuck counter of 16, drew a bush 20 times and kept its target
StuckRepickKeptTarget ==
  /\ call.fn = "wanderNpc" /\ ret.done
  /\ call.npc.x = 360 /\ call.npc.stuckTime = 16
  /\ call.npc.nextWanderTime > call.t
  /\ FirstOpenOrigin(call.m, call.rnd.wander) = << >>
  /\ ret.value.stuckTime = 0
  /\ ret.value.nextWanderTime = call.t + 1999
  /\ ret.value.wanderTarget = call.npc.wanderTarget

\* C34: after a level's set-up a player in columns 0 to 3 has the dog in
\* columns 7 to 10, a player in columns 7 to 10 has it in columns 0 to 3, and
\* the two are at least 4 columns apart
PursuerOnOppositeSide ==
  call.fn = "initNPCs" /\ ret.done =>
    \A i \in 1 .. Len(ret.value.npcs) :
      ret.value.npcs[i].type = "dog" =>
        LET pc == CellOf(ret.value.player)[1]
            dc == CellOf(ret.value.npcs[i])[1]
        IN /\ pc \in 0 .. 3 => dc \in 7 .. 10
           /\ pc \in 7 .. 10 => dc \in 0 .. 3
           /\ Abs(pc - dc) >= 4

\* the point is the origin of an open cell of the grid m
OpenCellOrigin(m, pt) ==
  /\ pt.x % TILE_SIZE = 0 /\ pt.y % TILE_SIZE = 0
  /\ pt.x \div TILE_SIZE \in Cols /\ pt.y \div TILE_SIZE \in Rows
  /\ ~WallAt(m, pt.y \div TILE_SIZE, pt.x \div TILE_SIZE)

\* C35: an NPC is created with its own spawn cell, an open cell, as wander
\* target; and the tick of an NPC whose wander target is the origin of an
\* open cell of the maze leaves it with such a target, re-picked or not
WanderTargetOnOpenCell ==
  /\ call.fn = "initNPCs" /\ ret.done =>
       \A i \in 1 .. Len(ret.value.npcs) :
         /\ ret.value.npcs[i].wanderTarget =
              [x |-> ret.value.npcs[i].x, y |-> ret.value.npcs[i].y]
         /\ OpenCellOrigin(ret.value.wallMatrix, ret.value.npcs[i].wanderTarget)
  /\ call.fn \in {"wanderNpc", "updateNPCs"} /\ ret.done =>
       /\ OpenCellOrigin(call.m, call.npc.wanderTarget)
       /\ OpenCellOrigin(call.m, ret.value.wanderTarget)
       /\ ret.value.dead = call.npc.dead

\* C35 witness: a re-pick that drew two bush cells and then the open cell of
\* column 9, row 5 made the origin of that cell the target
RepickedPastBushes ==
  /\ call.fn = "wanderNpc" /\ ret.done
  /\ call.rnd.wander[1] = <<8, 1>> /\ WallAt(call.m, 1, 8)
  /\ call.rnd.wander[2] = <<3, 2>> /\ WallAt(call.m, 2, 3)
  /\ ret.value.wanderTarget = [x |-> 9 * TILE_SIZE, y |-> 5 * TILE_SIZE]
  /\ ret.value.wanderTarget # call.npc.wanderTarget

\* C36: in a maze, while and after it is generated, the blocked cell of row
\* 2, column 3 has blocked neighbours on both axes and resolves to the
\* joiner; every other blocked cell has blocked neighbours on exactly one
\* axis (so none is isolated) and resolves to a middle or a cap tile
OneJoiner ==
  genPhase # "idle" =>
    /\ <<2, 3>> \in Blocked(wallMatrix)
    /\ \A cell \in Blocked(wallMatrix) :
         LET vertical == \/ BlockedCell(wallMatrix, cell[1] - 1, cell[2])
                         \/ BlockedCell(wallMatrix, cell[1] + 1, cell[2])
             horizontal == \/ BlockedCell(wallMatrix, cell[1], cell[2] - 1)
                           \/ BlockedCell(wallMatrix, cell[1], cell[2] + 1)
             tile == getTileIndex(wallMatrix, cell[1], cell[2])
         IN IF cell = <<2, 3>>
            THEN vertical /\ horizontal /\ tile = BUSH_JOINER
            ELSE /\ vertical # horizontal
                 /\ vertical =>
                      tile \in {BUSH_VERT_MIDDLE, BUSH_VERT_CAP_TOP, BUSH_VERT_CAP_BOTTOM}
                 /\ horizontal =>
                      tile \in {BUSH_HORIZ_MIDDLE, BUSH_HORIZ_CAP_LEFT, BUSH_HORIZ_CAP_RIGHT}
                 /\ tile # BUSH_JOINER

\* C36 witness: a finished maze of six detached segments, two of them
\* diagonally next to each other, with the joiner in row 2, column 3 and a
\* bottom cap in row 3, column 3
JoinerAmongSixSegments ==
  /\ genPhase = "done" /\ placedCount = NUM_DETACHED_WALLS
  /\ <<2, 6>> \in Blocked(wallMatrix) /\ <<3, 5>> \in Blocked(wallMatrix)
  /\ getTileIndex(wallMatrix, 2, 3) = BUSH_JOINER
  /\ getTileIndex(wallMatrix, 3, 3) = BUSH_VERT_CAP_BOTTOM

\* updateNPCs 1390-1391 applied to a position
ClampedToMap(n) ==
  [x |-> Max(0, Min(n.x, MAP_WIDTH - NPC_SIZE)),
   y |-> Max(0, Min(n.y, MAP_HEIGHT - NPC_SIZE))]

\* C37: the NPCs of a level set-up stand off every bush hitbox; an NPC that
\* stands off every bush hitbox still does after updateNPCs moved it (chase,
\* flee or wander, then the clamp), after wanderNpc moved it, and after
\* moveNpcAway moved it (edge clamping and jitter included), both before and
\* after the clamp to map bounds
NpcOutsideWalls ==
  /\ call.fn = "initNPCs" /\ ret.done =>
       \A i \in 1 .. Len(ret.value.npcs) :
         ~HitboxOnBush(ret.value.wallMatrix, ret.value.npcs[i].x, ret.value.npcs[i].y)
  /\ /\ call.fn \in {"updateNPCs", "wanderNpc", "moveNpcAway"} /\ ret.done
     /\ ~HitboxOnBush(call.m, call.npc.x, call.npc.y)
     => /\ ~HitboxOnBush(call.m, ret.value.x, ret.value.y)
        /\ ~HitboxOnBush(call.m, ClampedToMap(ret.value).x, ClampedToMap(ret.value).y)

\* C37 witness: a chick diagonally off the corner of a bush flees towards
\* it; the X step is taken, the Y step, free at the old X, is refused
FleeStepRefusedAtCorner ==
  /\ call.fn = "moveNpcAway" /\ ret.done
  /\ call.npc.x = 158 /\ call.npc.y = 158 /\ call.npc.stuckTime = 0
  /\ ~HitboxOnBush(call.m, call.npc.x, call.npc.y)
  /\ ret.value.x > 160 /\ ret.value.y = 158
  /\ ~npcCollidesWithWall(call.m, call.npc.x, call.npc.y + (ret.value.x - call.npc.x))

\* C38: while levelComplete is true the level has at least one chick and no
\* live chick; levelComplete goes from false to true only in a simulated tick
\* that marks a chick dead
CompleteOnlyByCatch ==
  /\ [](levelComplete => Chicks(npcs) # {} /\ LiveChicks(npcs) = {})
  /\ [][ ~levelComplete /\ levelComplete' =>
           /\ TickStep
           /\ \E i \in NewlyDead(npcs, npcs') : npcs[i].type = "chick" ]_vars

\* C38 witness: the level's chick has been caught, the level is complete and
\* update has run again since, leaving the chick dead
CompleteAndFrozen ==
  /\ levelComplete /\ frozenUpdate /\ ~gameOver
  /\ Chicks(npcs) # {} /\ LiveChicks(npcs) = {}
  /\ caught = 1

====
